---- MODULE Spec2Model ----
(***************************************************************************)
(* discuss.ts, the PR review comment manager: the local store (comments    *)
(* and replies tables), the sync cycle (fetchComments), snoozing, and the  *)
(* resolve / unresolve commands, as a state machine.                       *)
(*                                                                         *)
(* One run of the tool is one command: main starts it, the handler runs    *)
(* step by step (one step per awaited provider call or per function of     *)
(* the source) and the process ends with an exit status.  pc is the call   *)
(* stack of the running process, its head the step to take next.           *)
(*                                                                         *)
(* review.ts, the review workflow manager, is the second tool: it keeps    *)
(* sessions and batches in a database of its own, reads the comments       *)
(* table of discuss.ts and asks git what is staged.  Its commands are      *)
(* modelled at the end of the module.                                      *)
(***************************************************************************)
EXTENDS Integers, Sequences, FiniteSets, TLC

VARIABLES
  comments,    \* table comments: id -> row
  replies,     \* table replies: id -> row
  clock,       \* wall clock (new Date())
  pc,          \* call stack of the running process, <<>> when no process runs
  cmd,         \* the running command: name, ids still to process, commit, reply
  cur,         \* resolveComment / replyToComment: id and thread id read at entry
  fetched,     \* fetchComments: result of fetchPRComments
  threadInfo,  \* fetchThreadMetadata: Map<number, ThreadInfo>
  pages,       \* fetchThreadMetadata: pageCount, while the loop runs
  cursor,      \* fetchThreadMetadata: cursor, the endCursor of the last page
  received,    \* (history) the pages the provider answered this call with
  summary,     \* fetchComments: newCount, updatedCount, unsnoozedCount, ...
  argv,        \* command line of the last process started
  exit,        \* exit status of the last process, 0 until it ends otherwise
  out,         \* messages the process printed
  calls,       \* provider calls the process issued
  outcome,     \* the last resolve / unresolve mutation: the comment, the
               \* provider's answer and what executeGraphQLMutation returned
  sessions,    \* review.ts, table review_sessions: a row's id is its index
  batches,     \* review.ts, table review_batches: a row's id is its index
  git,         \* the work tree and index of the repository, and its commits
  shown        \* review.ts: the command of the running process, what it
               \* printed and what the user answered at its prompt

\* discuss.ts: the store, the process and its history
dvars == <<comments, replies, clock, pc, cmd, cur, fetched, threadInfo, pages,
           cursor, received, summary, argv, exit, out, calls, outcome>>

\* review.ts: the review database, the repository and the process
rvars == <<sessions, batches, git, shown>>

vars == <<comments, replies, clock, pc, cmd, cur, fetched, threadInfo, pages,
          cursor, received, summary, argv, exit, out, calls, outcome,
          sessions, batches, git, shown>>

----------------------------------------------------------------------------
(* Bounds of the model *)

\* latest wall-clock instant
MaxClock == 2
\* replies the provider holds per review comment
MaxReplies == 1
\* notes one comment collects
MaxNotes == 1
\* notes one comment collects where the log of notes is the subject
MaxNotesLog == 2
\* lines of a comment body
MaxLines == 2
\* pages of review threads per metadata fetch
MaxPages == 2

----------------------------------------------------------------------------
(* Values *)

Null == "NULL"

\* the --commit default of resolveComment
HEAD == "HEAD"

\* A body is its lines; a line is the set of markers it contains
\* (String.includes over the fixed marker tables).
PRIORITY_MARKERS ==
  << <<"Potential issue", "issue">>,
     <<"Refactor suggestion", "refactor">>,
     <<"Nitpick", "nitpick">> >>

SEVERITY_MARKERS ==
  << <<"Critical", "critical">>,
     <<"Major", "major">>,
     <<"Minor", "minor">>,
     <<"Trivial", "trivial">> >>

\* first entry of the table whose marker the line includes, else "unknown"
RECURSIVE FirstMarker(_, _, _)
FirstMarker(table, line, i) ==
  IF i > Len(table) THEN "unknown"
  ELSE IF table[i][1] \in line THEN table[i][2]
  ELSE FirstMarker(table, line, i + 1)

\* Faulty variant: the markers are looked for in the whole body.
parseCommentAnyLine(body) ==
  LET anyLine == UNION {body[k] : k \in 1..Len(body)}
  IN [priority |-> FirstMarker(PRIORITY_MARKERS, anyLine, 1),
      severity |-> FirstMarker(SEVERITY_MARKERS, anyLine, 1)]

parseComment(body) ==
  LET firstLine == IF Len(body) = 0 THEN {} ELSE body[1]
  IN [priority |-> FirstMarker(PRIORITY_MARKERS, firstLine, 1),
      severity |-> FirstMarker(SEVERITY_MARKERS, firstLine, 1)]

----------------------------------------------------------------------------
(* The local store *)

Put(f, k, v) == [x \in (DOMAIN f) \cup {k} |-> IF x = k THEN v ELSE f[x]]

getReplyCount(rs, commentId) ==
  Cardinality({r \in DOMAIN rs : rs[r].in_reply_to_id = commentId})

getSnoozedComments(db) == {id \in DOMAIN db : db[id].waiting_reply}

NoThread == [threadId |-> Null, isResolved |-> FALSE, isOutdated |-> FALSE]

\* Faulty variant: a plain REPLACE, the columns the fetch does not carry fall
\* back to their defaults.
upsertCommentReplacing(db, comment, info, now) ==
  LET p == parseComment(comment.body)
      existing == comment.id \in DOMAIN db
      i == IF info = <<>> THEN NoThread ELSE info[1]
      row == [path |-> comment.path,
              body |-> comment.body,
              priority |-> p.priority,
              severity |-> p.severity,
              outdated |-> i.isOutdated,
              updated_at |-> comment.updated_at,
              first_seen |-> IF existing THEN db[comment.id].first_seen ELSE now,
              thread_id |-> i.threadId,
              github_resolved |-> i.isResolved,
              resolved_commit |-> Null,
              waiting_reply |-> FALSE,
              snoozed_reply_count |-> 0,
              notes |-> <<>>]
  IN [db |-> Put(db, comment.id, row), wasNew |-> ~existing]

\* Faulty variant: first_seen is the time of the latest sync.
upsertCommentSeenNow(db, comment, info, now) ==
  LET p == parseComment(comment.body)
      existing == comment.id \in DOMAIN db
      old == db[comment.id]
      i == IF info = <<>> THEN NoThread ELSE info[1]
      row == [path |-> comment.path,
              body |-> comment.body,
              priority |-> p.priority,
              severity |-> p.severity,
              outdated |-> i.isOutdated,
              updated_at |-> comment.updated_at,
              first_seen |-> now,
              thread_id |-> i.threadId,
              github_resolved |-> i.isResolved,
              resolved_commit |-> IF existing THEN old.resolved_commit ELSE Null,
              waiting_reply |-> IF existing THEN old.waiting_reply ELSE FALSE,
              snoozed_reply_count |->
                IF existing THEN old.snoozed_reply_count ELSE 0,
              notes |-> IF existing THEN old.notes ELSE <<>>]
  IN [db |-> Put(db, comment.id, row), wasNew |-> ~existing]

\* Faulty variant: a comment without thread info keeps the thread columns of
\* the row being replaced.
upsertCommentKeepingThread(db, comment, info, now) ==
  LET p == parseComment(comment.body)
      existing == comment.id \in DOMAIN db
      old == db[comment.id]
      i == IF info # <<>> THEN info[1]
           ELSE IF existing
           THEN [threadId |-> old.thread_id, isResolved |-> old.github_resolved,
                 isOutdated |-> old.outdated]
           ELSE NoThread
      row == [path |-> comment.path,
              body |-> comment.body,
              priority |-> p.priority,
              severity |-> p.severity,
              outdated |-> i.isOutdated,
              updated_at |-> comment.updated_at,
              first_seen |-> IF existing THEN old.first_seen ELSE now,
              thread_id |-> i.threadId,
              github_resolved |-> i.isResolved,
              resolved_commit |-> IF existing THEN old.resolved_commit ELSE Null,
              waiting_reply |-> IF existing THEN old.waiting_reply ELSE FALSE,
              snoozed_reply_count |->
                IF existing THEN old.snoozed_reply_count ELSE 0,
              notes |-> IF existing THEN old.notes ELSE <<>>]
  IN [db |-> Put(db, comment.id, row), wasNew |-> ~existing]

\* INSERT OR REPLACE: first_seen, resolved_commit, waiting_reply,
\* snoozed_reply_count and notes are read back from the row being replaced.
\* info is <<>> (null) or <<ThreadInfo>>.
upsertComment(db, comment, info, now) ==
  LET p == parseComment(comment.body)
      existing == comment.id \in DOMAIN db
      old == db[comment.id]
      i == IF info = <<>> THEN NoThread ELSE info[1]
      row == [path |-> comment.path,
              body |-> comment.body,
              priority |-> p.priority,
              severity |-> p.severity,
              outdated |-> i.isOutdated,
              updated_at |-> comment.updated_at,
              first_seen |-> IF existing THEN old.first_seen ELSE now,
              thread_id |-> i.threadId,
              github_resolved |-> i.isResolved,
              resolved_commit |-> IF existing THEN old.resolved_commit ELSE Null,
              waiting_reply |-> IF existing THEN old.waiting_reply ELSE FALSE,
              snoozed_reply_count |->
                IF existing THEN old.snoozed_reply_count ELSE 0,
              notes |-> IF existing THEN old.notes ELSE <<>>]
  IN [db |-> Put(db, comment.id, row), wasNew |-> ~existing]

upsertReply(rs, reply) ==
  Put(rs, reply.id, [in_reply_to_id |-> reply.in_reply_to_id,
                     body |-> reply.body,
                     updated_at |-> reply.updated_at])

\* Faulty variant: a comment is woken as soon as it has as many replies as
\* when it was snoozed.
processAutoUnsnoozeAtEqual(db, rs) ==
  LET woken == {id \in getSnoozedComments(db) :
                   getReplyCount(rs, id) >= db[id].snoozed_reply_count}
  IN [db |-> [id \in DOMAIN db |->
                IF id \in woken
                THEN [db[id] EXCEPT !.waiting_reply = FALSE,
                                    !.snoozed_reply_count = 0]
                ELSE db[id]],
      unsnoozedCount |-> Cardinality(woken)]

\* Faulty variant: the UPDATE resets the snapshot and leaves waiting_reply.
processAutoUnsnoozeKeepsWaiting(db, rs) ==
  LET woken == {id \in getSnoozedComments(db) :
                   getReplyCount(rs, id) > db[id].snoozed_reply_count}
  IN [db |-> [id \in DOMAIN db |->
                IF id \in woken
                THEN [db[id] EXCEPT !.snoozed_reply_count = 0]
                ELSE db[id]],
      unsnoozedCount |-> Cardinality(woken)]

processAutoUnsnooze(db, rs) ==
  LET woken == {id \in getSnoozedComments(db) :
                   getReplyCount(rs, id) > db[id].snoozed_reply_count}
  IN [db |-> [id \in DOMAIN db |->
                IF id \in woken
                THEN [db[id] EXCEPT !.waiting_reply = FALSE,
                                    !.snoozed_reply_count = 0]
                ELSE db[id]],
      unsnoozedCount |-> Cardinality(woken)]

updateCommentField(db, id, field, value) ==
  IF id \in DOMAIN db THEN [db EXCEPT ![id][field] = value] ELSE db

clearStaleThreadId(db, id) == updateCommentField(db, id, "thread_id", Null)

----------------------------------------------------------------------------
(* What the provider can answer *)

B1 == << {"Potential issue", "Critical"}, {} >>
B2 == << {}, {"Nitpick", "Minor"} >>

\* the states of a review comment on the provider: an edit changes the body
\* and updated_at together
Versions == {[body |-> B1, updated_at |-> 1], [body |-> B2, updated_at |-> 2]}

PathOf(id) == IF id = 100 THEN "a.ts" ELSE "b.ts"

ThreadIdOf(id) == CASE id = 100 -> "T1" [] id = 200 -> "T2" [] OTHER -> "T3"

\* the replies to comment id that the provider may hold
ReplyIdsOf(id) == {id * 10 + k : k \in 1..MaxReplies}

TopLevel(id, v) ==
  [body |-> v.body, in_reply_to_id |-> 0, id |-> id, path |-> PathOf(id),
   updated_at |-> v.updated_at]

ReplyTo(id, r) ==
  [body |-> <<{}>>, in_reply_to_id |-> id, id |-> r, path |-> PathOf(id),
   updated_at |-> 1]

\* GET pulls/:pr/comments --paginate: the flat list of the review comments of
\* the PR, replies among them; a reply is listed with the comment it answers
RestLists(ids, versions) ==
  UNION {
    UNION {
      { {TopLevel(c, f[c]) : c \in S} \cup R :
          R \in SUBSET UNION {{ReplyTo(c, r) : r \in ReplyIdsOf(c)} : c \in S} }
      : f \in [S -> versions] }
    : S \in SUBSET ids }

ThreadNode(id, res, outd) ==
  [comments |-> {[outdated |-> outd, databaseId |-> id]},
   id |-> ThreadIdOf(id), isResolved |-> res]

\* one page of reviewThreads: nodes, each with isResolved and the outdated
\* flag of its comment (a pair of flags), and pageInfo: hasNextPage (in more)
\* and, when there is a next page, the endCursor to ask for it
ThreadPages(ids, flags, more) ==
  { page \in
      UNION {
        { [nodes |-> {ThreadNode(c, f[c][1], f[c][2]) : c \in S},
           hasNextPage |-> h, endCursor |-> k] :
            f \in [S -> flags],
            h \in more,
            k \in {Null, "K1", "K2"} }
        : S \in SUBSET ids } :
      page.hasNextPage <=> page.endCursor # Null }

\* The answer to a resolveReviewThread / unresolveReviewThread mutation, as
\* executeGraphQLMutation reads it: gh exited non-zero (thrown) or not, the
\* thread in data ("none" when data holds none), an error of type NOT_FOUND
\* in errors, and for a thrown error whether error.stdout is there and parses
\* as JSON.  A mutation that fails with NOT_FOUND returns no thread.
MutationAnswers ==
  { [thrown |-> FALSE, thread |-> t, notFound |-> FALSE, stdout |-> "json"] :
      t \in {"resolved", "unresolved", "none"} }
  \cup { [thrown |-> FALSE, thread |-> "none", notFound |-> TRUE, stdout |-> "json"] }
  \cup { [thrown |-> TRUE, thread |-> "none", notFound |-> nf, stdout |-> "json"] :
           nf \in BOOLEAN }
  \cup { [thrown |-> TRUE, thread |-> "none", notFound |-> FALSE, stdout |-> so] :
           so \in {"none", "garbage"} }

\* command-line words: comment ids, a commit hash, the flags of resolve
ParseInt(t) ==
  CASE t = "100" -> 100 [] t = "200" -> 200 [] t = "300" -> 300 [] OTHER -> -1

----------------------------------------------------------------------------
(* The process *)

NoCmd == [name |-> "none", ids |-> <<>>, commit |-> Null, reply |-> Null]
NoCur == [id |-> "", thread_id |-> Null]
NoFetched == [comments |-> {}, replies |-> {}]
NoAnswer == [thrown |-> FALSE, thread |-> "none", notFound |-> FALSE,
             stdout |-> "none"]
NoOutcome == [result |-> "none", op |-> "none", id |-> "", answer |-> NoAnswer]
NoSummary == [newCount |-> 0, updatedCount |-> 0, replies |-> 0,
              unsnoozedCount |-> 0, resolvedCount |-> 0, outdatedCount |-> 0]

\* a work tree where no file of GitPaths is changed, no commit made yet
GitPaths == <<"a.ts", "ba.ts", "c.ts">>

Clean == <<" ", " ">>

NoShown == [cmd |-> "none", out |-> {}, answer |-> ""]

\* initReviewDatabase on a new review.sqlite: CREATE TABLE IF NOT EXISTS
InitReviewDb ==
  /\ sessions = <<>>
  /\ batches = <<>>
  /\ git = [status |-> [p \in {GitPaths[i] : i \in 1..Len(GitPaths)} |-> Clean],
            commits |-> 0]
  /\ shown = NoShown

Init ==
  /\ comments = <<>>
  /\ replies = <<>>
  /\ clock = 1
  /\ pc = <<>>
  /\ cmd = NoCmd
  /\ cur = NoCur
  /\ fetched = NoFetched
  /\ threadInfo = <<>>
  /\ pages = 0
  /\ cursor = Null
  /\ received = <<>>
  /\ summary = NoSummary
  /\ argv = <<>>
  /\ exit = 0
  /\ out = {}
  /\ calls = {}
  /\ outcome = NoOutcome
  /\ InitReviewDb

locals == <<cmd, cur, fetched, threadInfo, pages, cursor, received>>
store == <<comments, replies>>
history == <<summary, argv, out, calls, outcome>>

\* The process is gone and so is what it printed: between two runs of the
\* tool there is the database file and nothing else.
processExited ==
  /\ pc = <<>>
  /\ argv # <<>>
  /\ argv' = <<>>
  /\ exit' = 0
  /\ out' = {}
  /\ calls' = {}
  /\ outcome' = NoOutcome
  /\ summary' = NoSummary
  /\ UNCHANGED <<store, clock, pc, locals>>
  /\ UNCHANGED rvars

\* time passes between two runs of the tool
Tick ==
  /\ pc = <<>>
  /\ argv = <<>>
  /\ clock < MaxClock
  /\ clock' = clock + 1
  /\ UNCHANGED <<store, pc, locals, history, exit>>
  /\ UNCHANGED rvars

\* process.exit(code), or main returning (code 0): the process and its locals
\* are gone
Ends(code) ==
  /\ pc' = <<>>
  /\ exit' = code
  /\ cmd' = NoCmd
  /\ cur' = NoCur
  /\ fetched' = NoFetched
  /\ threadInfo' = <<>>
  /\ pages' = 0
  /\ cursor' = Null
  /\ received' = <<>>

\* a function returns to its caller; main returns when the stack is empty
Returns ==
  IF Len(pc) = 1 THEN Ends(0)
  ELSE /\ pc' = Tail(pc)
       /\ exit' = exit
       /\ fetched' = NoFetched
       /\ threadInfo' = <<>>
       /\ pages' = 0
       /\ cursor' = Null
       /\ received' = <<>>
       /\ UNCHANGED <<cmd, cur>>

\* a new process running main with process.argv.slice(2) = args: nothing
\* called yet
Starts(args) ==
  /\ pc = <<>>
  /\ argv = <<>>
  /\ argv' = args
  /\ summary' = NoSummary
  /\ calls' = {}
  /\ outcome' = NoOutcome
  /\ UNCHANGED rvars

Msg(text, arg) == [msg |-> text, arg |-> arg]

----------------------------------------------------------------------------
(* fetchComments: one sync cycle *)

\* Step 1: fetchPRComments splits the flat list by in_reply_to_id
fetchPRComments(lists) ==
  /\ pc # <<>> /\ Head(pc) = "fetchPRComments" /\ UNCHANGED rvars
  /\ calls' = calls \cup {"GET comments"}
  /\ \/ \E list \in lists :
          /\ fetched' = [comments |-> {c \in list : c.in_reply_to_id = 0},
                         replies |-> {c \in list : c.in_reply_to_id # 0}]
          /\ threadInfo' = <<>>
          /\ pages' = 0
          /\ cursor' = Null
          /\ received' = <<>>
          /\ pc' = <<"fetchThreadMetadata">> \o Tail(pc)
          /\ UNCHANGED <<store, clock, cmd, cur, summary, argv, exit, out, outcome>>
     \/ \* the call throws: caught in fetchComments, process.exit(1)
        /\ out' = out \cup {Msg("Failed to fetch comments", "")}
        /\ Ends(1)
        /\ UNCHANGED <<store, clock, summary, argv, outcome>>

\* threadInfo.set(comment.databaseId, ...) for every comment of every thread
mapThreads(info, nodes) ==
  LET entries == UNION {
        { [databaseId |-> c.databaseId,
           info |-> [threadId |-> t.id, isResolved |-> t.isResolved,
                     isOutdated |-> c.outdated]] : c \in t.comments }
        : t \in nodes }
      ids == {e.databaseId : e \in entries}
  IN [id \in (DOMAIN info) \cup ids |->
        IF id \in ids
        THEN (CHOOSE e \in entries : e.databaseId = id).info
        ELSE info[id]]

\* the comments of the threads of a page
commentsOf(page) ==
  UNION {{c.databaseId : c \in t.comments} : t \in page.nodes}

\* the reviewThreads query: cursorArg = cursor ? `, after: "${cursor}"` : ""
reviewThreadsQuery(after) ==
  CASE after = Null -> "query reviewThreads"
    [] after = "K1" -> "query reviewThreads after K1"
    [] OTHER -> "query reviewThreads after K2"

\* what the provider may answer: a query with a cursor lists threads past
\* that cursor, none of them listed before
listedPast(page, after, info) ==
  after # Null => commentsOf(page) \cap DOMAIN info = {}

\* (variant) a page that cannot be read ends the paging and the cycle goes
\* on with the threads mapped so far
fetchThreadMetadataPartial(pageSet) ==
  /\ pc # <<>> /\ Head(pc) = "fetchThreadMetadata" /\ UNCHANGED rvars
  /\ calls' = calls \cup {reviewThreadsQuery(cursor)}
  /\ \/ \E page \in pageSet :
          /\ page.hasNextPage => pages + 1 < MaxPages
          /\ listedPast(page, cursor, threadInfo)
          /\ threadInfo' = mapThreads(threadInfo, page.nodes)
          /\ received' = Append(received, page)
          /\ out' = out \cup {Msg("Page", ToString(pages + 1))}
          /\ IF page.hasNextPage
             THEN pages' = pages + 1 /\ cursor' = page.endCursor /\ pc' = pc
             ELSE pages' = 0 /\ cursor' = Null /\ pc' = <<"upsert">> \o Tail(pc)
          /\ UNCHANGED <<store, clock, cmd, cur, fetched, summary, argv, exit,
                         outcome>>
     \/ /\ out' = out \cup {Msg("Failed to fetch comments", "")}
        /\ pages' = 0
        /\ cursor' = Null
        /\ pc' = <<"upsert">> \o Tail(pc)
        /\ UNCHANGED <<store, clock, cmd, cur, fetched, threadInfo, received,
                       summary, argv, exit, outcome>>

\* (variant) the cursor of the page is dropped: every query is the first
fetchThreadMetadataNoCursor(pageSet) ==
  /\ pc # <<>> /\ Head(pc) = "fetchThreadMetadata" /\ UNCHANGED rvars
  /\ calls' = calls \cup {reviewThreadsQuery(cursor)}
  /\ \/ \E page \in pageSet :
          /\ page.hasNextPage => pages + 1 < MaxPages
          /\ listedPast(page, cursor, threadInfo)
          /\ threadInfo' = mapThreads(threadInfo, page.nodes)
          /\ received' = Append(received, page)
          /\ out' = out \cup {Msg("Page", ToString(pages + 1))}
          /\ IF page.hasNextPage
             THEN pages' = pages + 1 /\ cursor' = Null /\ pc' = pc
             ELSE pages' = 0 /\ cursor' = Null /\ pc' = <<"upsert">> \o Tail(pc)
          /\ UNCHANGED <<store, clock, cmd, cur, fetched, summary, argv, exit,
                         outcome>>
     \/ /\ out' = out \cup {Msg("Failed to fetch comments", "")}
        /\ Ends(1)
        /\ UNCHANGED <<store, clock, summary, argv, outcome>>

\* Step 2: one pass of the while loop of fetchThreadMetadata per step, the
\* query with the cursor of the page before; the function returns when a
\* page has no next page (the cursor of that page is not read again)
fetchThreadMetadata(pageSet) ==
  /\ pc # <<>> /\ Head(pc) = "fetchThreadMetadata" /\ UNCHANGED rvars
  /\ calls' = calls \cup {reviewThreadsQuery(cursor)}
  /\ \/ \E page \in pageSet :
          /\ page.hasNextPage => pages + 1 < MaxPages
          /\ listedPast(page, cursor, threadInfo)
          /\ threadInfo' = mapThreads(threadInfo, page.nodes)
          /\ received' = Append(received, page)
          \* deferLog("Page n: Found ..."), printed when the cycle ends
          /\ out' = out \cup {Msg("Page", ToString(pages + 1))}
          /\ IF page.hasNextPage
             THEN pages' = pages + 1 /\ cursor' = page.endCursor /\ pc' = pc
             ELSE pages' = 0 /\ cursor' = Null /\ pc' = <<"upsert">> \o Tail(pc)
          /\ UNCHANGED <<store, clock, cmd, cur, fetched, summary, argv, exit,
                         outcome>>
     \/ \* the query of this page throws: caught in fetchComments
        /\ out' = out \cup {Msg("Failed to fetch comments", "")}
        /\ Ends(1)
        /\ UNCHANGED <<store, clock, summary, argv, outcome>>

RECURSIVE upsertComments(_, _, _, _)
upsertComments(db, cs, tinfo, now) ==
  IF cs = {} THEN [db |-> db, newCount |-> 0, updatedCount |-> 0]
  ELSE LET c == CHOOSE x \in cs : TRUE
           info == IF c.id \in DOMAIN tinfo THEN <<tinfo[c.id]>> ELSE <<>>
           u == upsertComment(db, c, info, now)
           rest == upsertComments(u.db, cs \ {c}, tinfo, now)
       IN [db |-> rest.db,
           newCount |-> rest.newCount + (IF u.wasNew THEN 1 ELSE 0),
           updatedCount |-> rest.updatedCount + (IF u.wasNew THEN 0 ELSE 1)]

RECURSIVE upsertReplies(_, _)
upsertReplies(rs, new) ==
  IF new = {} THEN rs
  ELSE LET r == CHOOSE x \in new : TRUE
       IN upsertReplies(upsertReply(rs, r), new \ {r})

\* Faulty variant: the pass of step 5 runs on the replies of the last cycle,
\* the replies of this one are not in the store yet.
storeFetchedCommentsOnly ==
  /\ pc # <<>> /\ Head(pc) = "upsert" /\ UNCHANGED rvars
  /\ LET u == upsertComments(comments, fetched.comments, threadInfo, clock)
     IN /\ comments' = u.db
        /\ summary' = [summary EXCEPT !.newCount = u.newCount,
                                      !.updatedCount = u.updatedCount,
                                      !.replies = Cardinality(fetched.replies)]
  /\ replies' = replies
  /\ fetched' = NoFetched
  /\ pc' = <<"processAutoUnsnooze">> \o Tail(pc)
  /\ UNCHANGED <<clock, cmd, cur, threadInfo, pages, cursor, received, argv, exit, out, calls,
                 outcome>>

\* Faulty variant: the table mirrors the provider, a row whose comment is
\* not listed any more is dropped.
storeFetchedMirroring ==
  /\ pc # <<>> /\ Head(pc) = "upsert" /\ UNCHANGED rvars
  /\ LET u == upsertComments(comments, fetched.comments, threadInfo, clock)
     IN /\ comments' = [id \in {c.id : c \in fetched.comments} |-> u.db[id]]
        /\ summary' = [summary EXCEPT !.newCount = u.newCount,
                                      !.updatedCount = u.updatedCount,
                                      !.replies = Cardinality(fetched.replies)]
  /\ replies' = upsertReplies(replies, fetched.replies)
  /\ fetched' = NoFetched
  /\ pc' = <<"processAutoUnsnooze">> \o Tail(pc)
  /\ UNCHANGED <<clock, cmd, cur, threadInfo, pages, cursor, received, argv, exit, out, calls,
                 outcome>>

\* Steps 3 and 4: store the comments, then the replies
storeFetched ==
  /\ pc # <<>> /\ Head(pc) = "upsert" /\ UNCHANGED rvars
  /\ LET u == upsertComments(comments, fetched.comments, threadInfo, clock)
     IN /\ comments' = u.db
        /\ summary' = [summary EXCEPT !.newCount = u.newCount,
                                      !.updatedCount = u.updatedCount,
                                      !.replies = Cardinality(fetched.replies)]
  /\ replies' = upsertReplies(replies, fetched.replies)
  /\ fetched' = NoFetched
  /\ pc' = <<"processAutoUnsnooze">> \o Tail(pc)
  /\ UNCHANGED <<clock, cmd, cur, threadInfo, pages, cursor, received, argv, exit, out, calls,
                 outcome>>

\* Steps 3 to 5 as one function of the store and of what was fetched: what
\* a run of the cycle leaves in the store and the counts it reports
fetchCycle(db, rs, f, tinfo, now) ==
  LET u == upsertComments(db, f.comments, tinfo, now)
      stored == upsertReplies(rs, f.replies)
      p == processAutoUnsnooze(u.db, stored)
  IN [comments |-> p.db, replies |-> stored, newCount |-> u.newCount,
      updatedCount |-> u.updatedCount, unsnoozedCount |-> p.unsnoozedCount]

\* Step 5
autoUnsnooze ==
  /\ pc # <<>> /\ Head(pc) = "processAutoUnsnooze" /\ UNCHANGED rvars
  /\ LET r == processAutoUnsnooze(comments, replies)
     IN /\ comments' = r.db
        /\ summary' = [summary EXCEPT !.unsnoozedCount = r.unsnoozedCount]
  /\ pc' = <<"printFetchSummary">> \o Tail(pc)
  /\ UNCHANGED <<replies, clock, locals, argv, exit, out, calls, outcome>>

\* Steps 6 and 7, and the return to the caller
printFetchSummary ==
  /\ pc # <<>> /\ Head(pc) = "printFetchSummary" /\ UNCHANGED rvars
  /\ summary' =
       [summary EXCEPT
          !.resolvedCount =
             Cardinality({id \in DOMAIN threadInfo : threadInfo[id].isResolved}),
          !.outdatedCount =
             Cardinality({id \in DOMAIN threadInfo : threadInfo[id].isOutdated})]
  /\ Returns
  /\ UNCHANGED <<store, clock, argv, out, calls, outcome>>

\* main, case "fetch"
mainFetch ==
  /\ Starts(<<"fetch">>)
  /\ out' = {}
  /\ exit' = 0
  /\ pc' = <<"fetchPRComments">>
  /\ UNCHANGED <<store, clock, locals>>

----------------------------------------------------------------------------
(* Snoozing *)

\* Faulty variant: the snapshot is not taken.
snoozeCommentNoSnapshot(db, rs, id) ==
  LET n == ParseInt(id)
  IN IF n \in DOMAIN db
     THEN [db |-> [db EXCEPT ![n].waiting_reply = TRUE,
                             ![n].snoozed_reply_count = 0],
           changes |-> 1]
     ELSE [db |-> db, changes |-> 0]

snoozeComment(db, rs, id) ==
  LET currentReplyCount == getReplyCount(rs, ParseInt(id))
      n == ParseInt(id)
  IN IF n \in DOMAIN db
     THEN [db |-> [db EXCEPT ![n].waiting_reply = TRUE,
                             ![n].snoozed_reply_count = currentReplyCount],
           changes |-> 1]
     ELSE [db |-> db, changes |-> 0]

\* Faulty variant: the UPDATE clears waiting_reply and leaves the snapshot.
unsnoozeCommentKeepingSnapshot(db, id) ==
  LET n == ParseInt(id)
  IN IF n \in DOMAIN db
     THEN [db |-> [db EXCEPT ![n].waiting_reply = FALSE], changes |-> 1]
     ELSE [db |-> db, changes |-> 0]

unsnoozeComment(db, id) ==
  LET n == ParseInt(id)
  IN IF n \in DOMAIN db
     THEN [db |-> [db EXCEPT ![n].waiting_reply = FALSE,
                             ![n].snoozed_reply_count = 0],
           changes |-> 1]
     ELSE [db |-> db, changes |-> 0]

unsnoozeAll(db) ==
  [id \in DOMAIN db |->
     IF db[id].waiting_reply
     THEN [db[id] EXCEPT !.waiting_reply = FALSE, !.snoozed_reply_count = 0]
     ELSE db[id]]

\* main, case "snooze"
mainSnooze(words) ==
  \E id \in words :
    /\ Starts(<<"snooze", id>>)
    /\ LET r == snoozeComment(comments, replies, id)
       IN /\ comments' = r.db
          /\ IF r.changes = 0
             THEN out' = {Msg("not found", id)} /\ exit' = 1
             ELSE out' = {Msg("Snoozed", id)} /\ exit' = 0
    /\ UNCHANGED <<replies, clock, pc, locals>>

\* main, case "unsnooze"
mainUnsnooze(words) ==
  \E id \in words :
    /\ Starts(<<"unsnooze", id>>)
    /\ LET r == unsnoozeComment(comments, id)
       IN /\ comments' = r.db
          /\ IF r.changes = 0
             THEN out' = {Msg("not found", id)} /\ exit' = 1
             ELSE out' = {Msg("Unsnoozed", id)} /\ exit' = 0
    /\ UNCHANGED <<replies, clock, pc, locals>>

\* main, case "unsnooze-all"
mainUnsnoozeAll ==
  /\ Starts(<<"unsnooze-all">>)
  /\ comments' = unsnoozeAll(comments)
  /\ out' = {Msg("Unsnoozed all", "")}
  /\ exit' = 0
  /\ UNCHANGED <<replies, clock, pc, locals>>

----------------------------------------------------------------------------
(* Resolve, unresolve, reply *)

\* Faulty variant: the catch block does not look for NOT_FOUND.
executeGraphQLMutationNoCatch(ans, threadId, operationName) ==
  LET expectedResolved == IF operationName = "resolve" THEN "resolved"
                          ELSE "unresolved"
  IN IF threadId = Null THEN "false"
     ELSE IF ~ans.thrown
     THEN IF ans.thread = expectedResolved THEN "true"
          ELSE IF ans.notFound THEN "stale"
          ELSE "false"
     ELSE "false"

\* what executeGraphQLMutation returns for the provider's answer:
\* TRUE, "stale" or FALSE
executeGraphQLMutation(ans, threadId, operationName) ==
  LET expectedResolved == IF operationName = "resolve" THEN "resolved"
                          ELSE "unresolved"
  IN IF threadId = Null THEN "false"
     ELSE IF ~ans.thrown
     THEN IF ans.thread = expectedResolved THEN "true"
          ELSE IF ans.notFound THEN "stale"
          ELSE "false"
     ELSE IF ans.stdout = "json" /\ ans.notFound THEN "stale"
          ELSE "false"

\* Faulty variant: the thread id is not looked at before the reply.
resolveCommentReplyFirst ==
  /\ pc # <<>> /\ Head(pc) = "resolveComment" /\ UNCHANGED rvars
  /\ LET id == Head(cmd.ids)
         n == ParseInt(id)
     IN IF n \notin DOMAIN comments
        THEN /\ out' = out \cup {Msg("not found", id)}
             /\ Ends(1)
        ELSE /\ cur' = [id |-> id, thread_id |-> comments[n].thread_id]
             /\ pc' = IF cmd.reply # Null
                      THEN <<"replyToComment", "resolveThreadOnGitHub">> \o Tail(pc)
                      ELSE <<"resolveThreadOnGitHub">> \o Tail(pc)
             /\ UNCHANGED <<cmd, fetched, threadInfo, pages, cursor, received, exit, out>>
  /\ UNCHANGED <<store, clock, summary, argv, calls, outcome>>

\* resolveComment, up to the reply: the row and its thread id
resolveComment ==
  /\ pc # <<>> /\ Head(pc) = "resolveComment" /\ UNCHANGED rvars
  /\ LET id == Head(cmd.ids)
         n == ParseInt(id)
     IN IF n \notin DOMAIN comments
        THEN /\ out' = out \cup {Msg("not found", id)}
             /\ Ends(1)
        ELSE IF comments[n].thread_id = Null
        THEN /\ out' = out \cup {Msg("No thread ID", id)}
             /\ Ends(1)
        ELSE /\ cur' = [id |-> id, thread_id |-> comments[n].thread_id]
             /\ pc' = IF cmd.reply # Null
                      THEN <<"replyToComment", "resolveThreadOnGitHub">> \o Tail(pc)
                      ELSE <<"resolveThreadOnGitHub">> \o Tail(pc)
             /\ UNCHANGED <<cmd, fetched, threadInfo, pages, cursor, received, exit, out>>
  /\ UNCHANGED <<store, clock, summary, argv, calls, outcome>>

\* Faulty variant: a failed mutation is handled as a stale thread id.
resolveThreadOnGitHubClearing ==
  /\ pc # <<>> /\ Head(pc) = "resolveThreadOnGitHub" /\ UNCHANGED rvars
  /\ calls' = IF cur.thread_id = Null THEN calls
              ELSE calls \cup {"mutation resolveReviewThread"}
  /\ \E ans \in MutationAnswers :
       LET resolved == executeGraphQLMutation(ans, cur.thread_id, "resolve")
           n == ParseInt(cur.id)
       IN IF resolved = "stale"
          THEN /\ comments' = clearStaleThreadId(comments, n)
               /\ outcome' = [result |-> "Stale", op |-> "resolve", id |-> cur.id,
                              answer |-> ans]
               /\ out' = out \cup {Msg("Thread ID was stale", cur.id)}
               /\ Ends(1)
          ELSE IF resolved = "false"
          THEN /\ comments' = clearStaleThreadId(comments, n)
               /\ outcome' = [result |-> "Failed", op |-> "resolve", id |-> cur.id,
                              answer |-> ans]
               /\ out' = out \cup {Msg("Failed to resolve thread", cur.id)}
               /\ Ends(1)
          ELSE /\ comments' =
                    updateCommentField(comments, n, "resolved_commit",
                                       IF cmd.commit # Null THEN cmd.commit ELSE HEAD)
               /\ outcome' = [result |-> "Resolved", op |-> "resolve", id |-> cur.id,
                              answer |-> ans]
               /\ pc' = <<"fetchPRComments", "resolved">> \o Tail(pc)
               /\ UNCHANGED <<locals, exit, out>>
  /\ UNCHANGED <<replies, clock, summary, argv>>

\* Faulty variant: a successful resolve ends the snooze of the comment.
resolveThreadOnGitHubUnsnoozing ==
  /\ pc # <<>> /\ Head(pc) = "resolveThreadOnGitHub" /\ UNCHANGED rvars
  /\ calls' = IF cur.thread_id = Null THEN calls
              ELSE calls \cup {"mutation resolveReviewThread"}
  /\ \E ans \in MutationAnswers :
       LET resolved == executeGraphQLMutation(ans, cur.thread_id, "resolve")
           n == ParseInt(cur.id)
       IN IF resolved = "stale"
          THEN /\ comments' = clearStaleThreadId(comments, n)
               /\ outcome' = [result |-> "Stale", op |-> "resolve", id |-> cur.id,
                              answer |-> ans]
               /\ out' = out \cup {Msg("Thread ID was stale", cur.id)}
               /\ Ends(1)
          ELSE IF resolved = "false"
          THEN /\ comments' = comments
               /\ outcome' = [result |-> "Failed", op |-> "resolve", id |-> cur.id,
                              answer |-> ans]
               /\ out' = out \cup {Msg("Failed to resolve thread", cur.id)}
               /\ Ends(1)
          ELSE /\ comments' =
                    unsnoozeComment(
                      updateCommentField(comments, n, "resolved_commit",
                                         IF cmd.commit # Null THEN cmd.commit
                                         ELSE HEAD),
                      cur.id).db
               /\ outcome' = [result |-> "Resolved", op |-> "resolve", id |-> cur.id,
                              answer |-> ans]
               /\ pc' = <<"fetchPRComments", "resolved">> \o Tail(pc)
               /\ UNCHANGED <<locals, exit, out>>
  /\ UNCHANGED <<replies, clock, summary, argv>>

\* Faulty variant: a thread that could not be resolved is skipped and the
\* command goes on with the next id.
resolveThreadOnGitHubSkipping ==
  /\ pc # <<>> /\ Head(pc) = "resolveThreadOnGitHub" /\ UNCHANGED rvars
  /\ calls' = IF cur.thread_id = Null THEN calls
              ELSE calls \cup {"mutation resolveReviewThread"}
  /\ \E ans \in MutationAnswers :
       LET resolved == executeGraphQLMutation(ans, cur.thread_id, "resolve")
           n == ParseInt(cur.id)
       IN IF resolved = "stale"
          THEN /\ comments' = clearStaleThreadId(comments, n)
               /\ outcome' = [result |-> "Stale", op |-> "resolve", id |-> cur.id,
                              answer |-> ans]
               /\ out' = out \cup {Msg("Thread ID was stale", cur.id)}
               /\ Ends(1)
          ELSE IF resolved = "false"
          THEN /\ comments' = comments
               /\ outcome' = [result |-> "Failed", op |-> "resolve", id |-> cur.id,
                              answer |-> ans]
               /\ out' = out \cup {Msg("Failed to resolve thread", cur.id)}
               /\ IF Len(cmd.ids) > 1
                  THEN /\ cmd' = [cmd EXCEPT !.ids = Tail(cmd.ids)]
                       /\ pc' = <<"resolveComment">> \o Tail(pc)
                       /\ UNCHANGED <<cur, fetched, threadInfo, pages, cursor, received, exit>>
                  ELSE Ends(1)
          ELSE /\ comments' =
                    updateCommentField(comments, n, "resolved_commit",
                                       IF cmd.commit # Null THEN cmd.commit ELSE HEAD)
               /\ outcome' = [result |-> "Resolved", op |-> "resolve", id |-> cur.id,
                              answer |-> ans]
               /\ pc' = <<"fetchPRComments", "resolved">> \o Tail(pc)
               /\ UNCHANGED <<locals, exit, out>>
  /\ UNCHANGED <<replies, clock, summary, argv>>

\* Faulty variant: a resolve that succeeded marks the row resolved itself,
\* without waiting for what the re-sync reports.
resolveThreadOnGitHubMarking ==
  /\ pc # <<>> /\ Head(pc) = "resolveThreadOnGitHub" /\ UNCHANGED rvars
  /\ calls' = IF cur.thread_id = Null THEN calls
              ELSE calls \cup {"mutation resolveReviewThread"}
  /\ \E ans \in MutationAnswers :
       LET resolved == executeGraphQLMutation(ans, cur.thread_id, "resolve")
           n == ParseInt(cur.id)
       IN IF resolved = "stale"
          THEN /\ comments' = clearStaleThreadId(comments, n)
               /\ outcome' = [result |-> "Stale", op |-> "resolve", id |-> cur.id,
                              answer |-> ans]
               /\ out' = out \cup {Msg("Thread ID was stale", cur.id)}
               /\ Ends(1)
          ELSE IF resolved = "false"
          THEN /\ comments' = comments
               /\ outcome' = [result |-> "Failed", op |-> "resolve", id |-> cur.id,
                              answer |-> ans]
               /\ out' = out \cup {Msg("Failed to resolve thread", cur.id)}
               /\ Ends(1)
          ELSE /\ comments' =
                    updateCommentField(
                      updateCommentField(comments, n, "resolved_commit",
                                         IF cmd.commit # Null THEN cmd.commit ELSE HEAD),
                      n, "github_resolved", TRUE)
               /\ outcome' = [result |-> "Resolved", op |-> "resolve", id |-> cur.id,
                              answer |-> ans]
               /\ pc' = <<"fetchPRComments", "resolved">> \o Tail(pc)
               /\ UNCHANGED <<locals, exit, out>>
  /\ UNCHANGED <<replies, clock, summary, argv>>

\* resolveComment, the mutation and what follows it
resolveThreadOnGitHub ==
  /\ pc # <<>> /\ Head(pc) = "resolveThreadOnGitHub" /\ UNCHANGED rvars
  /\ calls' = IF cur.thread_id = Null THEN calls
              ELSE calls \cup {"mutation resolveReviewThread"}
  /\ \E ans \in MutationAnswers :
       LET resolved == executeGraphQLMutation(ans, cur.thread_id, "resolve")
           n == ParseInt(cur.id)
       IN IF resolved = "stale"
          THEN /\ comments' = clearStaleThreadId(comments, n)
               /\ outcome' = [result |-> "Stale", op |-> "resolve", id |-> cur.id,
                              answer |-> ans]
               /\ out' = out \cup {Msg("Thread ID was stale", cur.id)}
               /\ Ends(1)
          ELSE IF resolved = "false"
          THEN /\ comments' = comments
               /\ outcome' = [result |-> "Failed", op |-> "resolve", id |-> cur.id,
                              answer |-> ans]
               /\ out' = out \cup {Msg("Failed to resolve thread", cur.id)}
               /\ Ends(1)
          ELSE /\ comments' =
                    updateCommentField(comments, n, "resolved_commit",
                                       IF cmd.commit # Null THEN cmd.commit ELSE HEAD)
               /\ outcome' = [result |-> "Resolved", op |-> "resolve", id |-> cur.id,
                              answer |-> ans]
               /\ pc' = <<"fetchPRComments", "resolved">> \o Tail(pc)
               /\ UNCHANGED <<locals, exit, out>>
  /\ UNCHANGED <<replies, clock, summary, argv>>

\* resolveComment returns; main, case "resolve": the next id
resolved ==
  /\ pc # <<>> /\ Head(pc) = "resolved" /\ UNCHANGED rvars
  /\ out' = out \cup {Msg("resolved", cur.id)}
  /\ IF Len(cmd.ids) > 1
     THEN /\ cmd' = [cmd EXCEPT !.ids = Tail(cmd.ids)]
          /\ pc' = <<"resolveComment">> \o Tail(pc)
          /\ UNCHANGED <<cur, fetched, threadInfo, pages, cursor, received, exit>>
     ELSE Returns
  /\ UNCHANGED <<store, clock, summary, argv, calls, outcome>>

unresolveComment ==
  /\ pc # <<>> /\ Head(pc) = "unresolveComment" /\ UNCHANGED rvars
  /\ LET id == Head(cmd.ids)
         n == ParseInt(id)
     IN IF n \notin DOMAIN comments
        THEN /\ out' = out \cup {Msg("not found", id)}
             /\ Ends(1)
        ELSE IF comments[n].thread_id = Null
        THEN /\ out' = out \cup {Msg("No thread ID", id)}
             /\ Ends(1)
        ELSE /\ cur' = [id |-> id, thread_id |-> comments[n].thread_id]
             /\ pc' = <<"unresolveThreadOnGitHub">> \o Tail(pc)
             /\ UNCHANGED <<cmd, fetched, threadInfo, pages, cursor, received, exit, out>>
  /\ UNCHANGED <<store, clock, summary, argv, calls, outcome>>

unresolveThreadOnGitHub ==
  /\ pc # <<>> /\ Head(pc) = "unresolveThreadOnGitHub" /\ UNCHANGED rvars
  /\ calls' = IF cur.thread_id = Null THEN calls
              ELSE calls \cup {"mutation unresolveReviewThread"}
  /\ \E ans \in MutationAnswers :
       LET unresolved == executeGraphQLMutation(ans, cur.thread_id, "unresolve")
           n == ParseInt(cur.id)
       IN IF unresolved = "stale"
          THEN /\ comments' = clearStaleThreadId(comments, n)
               /\ outcome' = [result |-> "Stale", op |-> "unresolve", id |-> cur.id,
                              answer |-> ans]
               /\ out' = out \cup {Msg("Thread ID was stale", cur.id)}
               /\ Ends(1)
          ELSE IF unresolved = "false"
          THEN /\ comments' = comments
               /\ outcome' = [result |-> "Failed", op |-> "unresolve", id |-> cur.id,
                              answer |-> ans]
               /\ out' = out \cup {Msg("Failed to unresolve thread", cur.id)}
               /\ Ends(1)
          ELSE /\ comments' =
                    updateCommentField(comments, n, "resolved_commit", Null)
               /\ outcome' = [result |-> "Unresolved", op |-> "unresolve", id |-> cur.id,
                              answer |-> ans]
               /\ pc' = <<"fetchPRComments", "unresolved">> \o Tail(pc)
               /\ UNCHANGED <<locals, exit, out>>
  /\ UNCHANGED <<replies, clock, summary, argv>>

unresolved ==
  /\ pc # <<>> /\ Head(pc) = "unresolved" /\ UNCHANGED rvars
  /\ out' = out \cup {Msg("marked as unresolved", cur.id)}
  /\ Returns
  /\ UNCHANGED <<store, clock, summary, argv, calls, outcome>>

\* replyToComment, up to the list of the PR's comments
replyToComment(lists) ==
  /\ pc # <<>> /\ Head(pc) = "replyToComment" /\ UNCHANGED rvars
  /\ IF ParseInt(cur.id) \notin DOMAIN comments
     THEN /\ out' = out \cup {Msg("not found in database", cur.id)}
          /\ Ends(1)
          /\ calls' = calls
     ELSE /\ calls' = calls \cup {"GET comments"}
          /\ \/ \E list \in lists :
                  IF \E c \in list : c.id = ParseInt(cur.id)
                  THEN /\ pc' = <<"postCommentReply">> \o Tail(pc)
                       /\ UNCHANGED <<locals, exit, out>>
                  ELSE /\ out' = out \cup {Msg("not found on GitHub", cur.id)}
                       /\ Ends(1)
             \/ /\ out' = out \cup {Msg("Failed to reply", cur.id)}
                /\ Ends(1)
  /\ UNCHANGED <<store, clock, summary, argv, outcome>>

\* Faulty variant: the snooze is taken right after the POST, before the
\* refresh.
postCommentReplySnoozingFirst ==
  /\ pc # <<>> /\ Head(pc) = "postCommentReply" /\ UNCHANGED rvars
  /\ calls' = calls \cup {"POST reply"}
  /\ \/ /\ pc' = <<"snoozeAfterReply", "fetchPRComments">> \o Tail(pc)
        /\ out' = out \cup {Msg("Reply posted", cur.id)}
        /\ UNCHANGED <<locals, exit>>
     \/ /\ out' = out \cup {Msg("Failed to reply", cur.id)}
        /\ Ends(1)
  /\ UNCHANGED <<store, clock, summary, argv, outcome>>

\* replyToComment: the POST, then the refresh
postCommentReply ==
  /\ pc # <<>> /\ Head(pc) = "postCommentReply" /\ UNCHANGED rvars
  /\ calls' = calls \cup {"POST reply"}
  /\ \/ /\ pc' = <<"fetchPRComments", "snoozeAfterReply">> \o Tail(pc)
        /\ out' = out \cup {Msg("Reply posted", cur.id)}
        /\ UNCHANGED <<locals, exit>>
     \/ /\ out' = out \cup {Msg("Failed to reply", cur.id)}
        /\ Ends(1)
  /\ UNCHANGED <<store, clock, summary, argv, outcome>>

\* replyToComment: the snooze after the refresh, and the return
snoozeAfterReply ==
  /\ pc # <<>> /\ Head(pc) = "snoozeAfterReply" /\ UNCHANGED rvars
  /\ comments' = snoozeComment(comments, replies, cur.id).db
  /\ out' = out \cup {Msg("Snoozed", cur.id)}
  /\ Returns
  /\ UNCHANGED <<replies, clock, summary, argv, calls, outcome>>

----------------------------------------------------------------------------
(* main: the commands *)

\* args[k] of the source is args[k + 1] here; what is past the end is undefined
At(args, k) == IF k + 1 <= Len(args) THEN args[k + 1] ELSE Null

\* Array.indexOf
RECURSIVE indexOf(_, _, _)
indexOf(args, w, k) ==
  IF k >= Len(args) THEN -1
  ELSE IF args[k + 1] = w THEN k
  ELSE indexOf(args, w, k + 1)

existsInDb(db, arg) == ParseInt(arg) \in DOMAIN db

\* main, case "resolve": the loop that sorts the words into ids and a commit
RECURSIVE resolveArgs(_, _, _, _, _)
resolveArgs(db, args, i, ids, commitHash) ==
  IF i >= Len(args) THEN [ids |-> ids, commitHash |-> commitHash]
  ELSE LET arg == At(args, i)
       IN IF arg = "--reply" \/ arg = "--commit"
          THEN resolveArgs(db, args, i + 2, ids, commitHash)
          ELSE IF At(args, i - 1) = "--reply" \/ At(args, i - 1) = "--commit"
          THEN resolveArgs(db, args, i + 1, ids, commitHash)
          ELSE IF existsInDb(db, arg)
          THEN resolveArgs(db, args, i + 1, Append(ids, arg), commitHash)
          ELSE IF commitHash = Null
          THEN resolveArgs(db, args, i + 1, ids, arg)
          ELSE resolveArgs(db, args, i + 1, ids, commitHash)

\* main, case "resolve"
mainResolve(argLists) ==
  \E args \in argLists :
    /\ Starts(args)
    /\ IF At(args, 1) = Null
       THEN /\ out' = {Msg("Usage", "")}
            /\ exit' = 1
            /\ UNCHANGED <<pc, locals>>
       ELSE LET replyIndex == indexOf(args, "--reply", 0)
                replyMessage == IF replyIndex # -1 THEN At(args, replyIndex + 1)
                                ELSE Null
                commitFlagIndex == indexOf(args, "--commit", 0)
                commitHash == IF commitFlagIndex # -1
                              THEN At(args, commitFlagIndex + 1) ELSE Null
                p == resolveArgs(comments, args, 1, <<>>, commitHash)
            IN IF p.ids = <<>>
               THEN /\ out' = {Msg("No valid comment IDs provided", "")}
                    /\ exit' = 1
                    /\ UNCHANGED <<pc, locals>>
               ELSE /\ out' = {}
                    /\ cmd' = [name |-> "resolve", ids |-> p.ids,
                               commit |-> p.commitHash, reply |-> replyMessage]
                    /\ pc' = <<"resolveComment">>
                    /\ exit' = 0
                    /\ UNCHANGED <<cur, fetched, threadInfo, pages, cursor, received>>
    /\ UNCHANGED <<store, clock>>

\* main, case "unresolve"
mainUnresolve(words) ==
  \E id \in words :
    /\ Starts(<<"unresolve", id>>)
    /\ out' = {}
    /\ cmd' = [name |-> "unresolve", ids |-> <<id>>, commit |-> Null,
               reply |-> Null]
    /\ pc' = <<"unresolveComment">>
    /\ exit' = 0
    /\ UNCHANGED <<store, clock, cur, fetched, threadInfo, pages, cursor, received>>

\* main, case "reply"
mainReply(words) ==
  \E id \in words :
    /\ Starts(<<"reply", id, "text">>)
    /\ out' = {}
    /\ cur' = [id |-> id, thread_id |-> Null]
    /\ pc' = <<"replyToComment">>
    /\ exit' = 0
    /\ UNCHANGED <<store, clock, cmd, fetched, threadInfo, pages, cursor, received>>

\* main, case "show": the valid ids, in order
RECURSIVE showArgs(_, _, _)
showArgs(db, args, i) ==
  IF i >= Len(args) THEN <<>>
  ELSE IF existsInDb(db, At(args, i))
       THEN <<At(args, i)>> \o showArgs(db, args, i + 1)
       ELSE showArgs(db, args, i + 1)

mainShow(argLists) ==
  \E args \in argLists :
    /\ Starts(args)
    /\ IF At(args, 1) = Null
       THEN out' = {Msg("Usage", "")} /\ exit' = 1
       ELSE LET ids == showArgs(comments, args, 1)
                skipped == {Msg("Skipping invalid ID", At(args, i)) :
                              i \in {k \in 1..(Len(args) - 1) :
                                       ~existsInDb(comments, At(args, k))}}
            IN IF ids = <<>>
               THEN /\ out' = skipped \cup {Msg("No valid comment IDs provided", "")}
                    /\ exit' = 1
               ELSE /\ out' = skipped \cup
                              {Msg("show", ids[k]) : k \in 1..Len(ids)}
                    /\ exit' = 0
    /\ UNCHANGED <<store, clock, pc, locals>>

\* Faulty variant: the new entry takes the place of the notes.
addNoteReplacing(db, id, noteText, timestamp) ==
  LET n == ParseInt(id)
      newNote == [timestamp |-> timestamp, text |-> noteText]
  IN updateCommentField(db, n, "notes", <<newNote>>)

addNote(db, id, noteText, timestamp) ==
  LET n == ParseInt(id)
      newNote == [timestamp |-> timestamp, text |-> noteText]
  IN updateCommentField(db, n, "notes", db[n].notes \o <<newNote>>)

\* main, case "note"
mainNoteWithin(words, limit) ==
  \E id \in words :
    /\ Starts(<<"note", id, "text">>)
    /\ IF ~existsInDb(comments, id)
       THEN /\ out' = {Msg("not found", id)}
            /\ exit' = 1
            /\ comments' = comments
       ELSE /\ Len(comments[ParseInt(id)].notes) < limit
            /\ comments' = addNote(comments, id, "text", clock)
            /\ out' = {Msg("Added note", id)}
            /\ exit' = 0
    /\ UNCHANGED <<replies, clock, pc, locals>>

mainNote(words) == mainNoteWithin(words, MaxNotes)

----------------------------------------------------------------------------
(* Outdated comments: the listing and the bulk resolves *)

\* the paths of the PR, in the order of ORDER BY path
Paths == <<"a.ts", "b.ts">>

\* WHERE outdated = 1 AND github_resolved = 0
outdatedPending(db) ==
  {id \in DOMAIN db : db[id].outdated /\ ~db[id].github_resolved}

\* rows of one path come in the order of their rowid, which is the id
RECURSIVE ascending(_)
ascending(S) ==
  IF S = {} THEN <<>>
  ELSE LET m == CHOOSE x \in S : \A y \in S : x <= y
       IN <<m>> \o ascending(S \ {m})

\* ORDER BY path
RECURSIVE orderByPath(_, _, _)
orderByPath(db, S, k) ==
  IF k > Len(Paths) THEN <<>>
  ELSE ascending({id \in S : db[id].path = Paths[k]})
         \o orderByPath(db, S, k + 1)

\* Faulty variant: a path seen again gets a new list with the one comment.
RECURSIVE groupByPathReplacing(_, _, _)
groupByPathReplacing(db, ids, byFile) ==
  IF ids = <<>> THEN byFile
  ELSE LET id == Head(ids)
           has == {k \in 1..Len(byFile) : byFile[k].path = db[id].path}
       IN IF has = {}
          THEN groupByPathReplacing(db, Tail(ids),
                                    Append(byFile, [path |-> db[id].path,
                                                    ids |-> <<id>>]))
          ELSE LET k == CHOOSE x \in has : TRUE
               IN groupByPathReplacing(db, Tail(ids),
                                       [byFile EXCEPT ![k].ids = <<id>>])

\* the Map from path to the comments of that path, in insertion order:
\* if (!byFile.has(path)) byFile.set(path, []); byFile.get(path).push(comment)
RECURSIVE groupByPath(_, _, _)
groupByPath(db, ids, byFile) ==
  IF ids = <<>> THEN byFile
  ELSE LET id == Head(ids)
           has == {k \in 1..Len(byFile) : byFile[k].path = db[id].path}
       IN IF has = {}
          THEN groupByPath(db, Tail(ids),
                           Append(byFile, [path |-> db[id].path, ids |-> <<id>>]))
          ELSE LET k == CHOOSE x \in has : TRUE
               IN groupByPath(db, Tail(ids),
                              [byFile EXCEPT ![k].ids = Append(@, id)])

\* the comments of resolveDeletedFiles whose file is gone (isFileDeleted)
RECURSIVE deletedOnly(_, _, _)
deletedOnly(db, ids, deleted) ==
  IF ids = <<>> THEN <<>>
  ELSE IF db[Head(ids)].path \in deleted
       THEN <<Head(ids)>> \o deletedOnly(db, Tail(ids), deleted)
       ELSE deletedOnly(db, Tail(ids), deleted)

\* for (const [path, ids] of deletedFiles) for (const id of ids): String(id)
RECURSIVE idsOfGroups(_)
idsOfGroups(groups) ==
  IF groups = <<>> THEN <<>>
  ELSE [k \in 1..Len(Head(groups).ids) |-> ToString(Head(groups).ids[k])]
         \o idsOfGroups(Tail(groups))

\* String.toLowerCase on what the user may type at the prompt
toLowerCase(t) == CASE t = "YES" -> "yes" [] t = "Y" -> "y" [] OTHER -> t

\* the lines "path (n)" and "[id]" that list the groups
groupLines(groups) ==
  UNION {{Msg(groups[g].path, ToString(groups[g].ids[k])) :
            k \in 1..Len(groups[g].ids)} : g \in 1..Len(groups)}

\* main, case "outdated": showOutdatedComments; deleted is the set of paths
\* with no file on disk
mainOutdated(argLists, fileSystems) ==
  \E args \in argLists, deleted \in fileSystems :
    /\ Starts(args)
    /\ LET flag(f) == \E k \in 1..Len(args) : args[k] = f
           cs == orderByPath(comments, outdatedPending(comments), 1)
           deletedComments == deletedOnly(comments, cs, deleted)
       IN out' =
            IF cs = <<>> THEN {Msg("No outdated pending comments found", "")}
            ELSE IF flag("--count")
            THEN {Msg("outdated pending comments", ToString(Len(cs)))}
            ELSE IF flag("--deleted-files")
            THEN IF deletedComments = <<>>
                 THEN {Msg("No outdated comments for deleted files", "")}
                 ELSE {Msg("outdated comment for deleted file",
                           ToString(deletedComments[k])) :
                         k \in 1..Len(deletedComments)}
            ELSE IF flag("--by-file")
            THEN groupLines(groupByPath(comments, cs, <<>>))
            ELSE {Msg("outdated pending comment", ToString(cs[k])) :
                    k \in 1..Len(cs)}
    /\ exit' = 0
    /\ UNCHANGED <<store, clock, pc, locals>>

\* main, case "resolve-file": resolveByFile up to its loop
mainResolveFile(argLists) ==
  \E args \in argLists :
    /\ Starts(args)
    /\ IF At(args, 1) = Null \/ At(args, 2) = Null
       THEN /\ out' = {Msg("Usage", "")}
            /\ exit' = 1
            /\ UNCHANGED <<pc, locals>>
       ELSE LET cs == ascending({id \in outdatedPending(comments) :
                                   comments[id].path = At(args, 1)})
            IN IF cs = <<>>
               THEN /\ out' = {Msg("No outdated pending comments for", At(args, 1))}
                    /\ exit' = 0
                    /\ UNCHANGED <<pc, locals>>
               ELSE /\ out' = {Msg("Resolving outdated comments for", At(args, 1))}
                    /\ cmd' = [name |-> "resolve-file",
                               ids |-> [k \in 1..Len(cs) |-> ToString(cs[k])],
                               commit |-> At(args, 2), reply |-> Null]
                    /\ pc' = <<"resolveComment">>
                    /\ exit' = 0
                    /\ UNCHANGED <<cur, fetched, threadInfo, pages, cursor, received>>
    /\ UNCHANGED <<store, clock>>

\* Faulty variant: the batch goes on unless the answer is no or n.
mainResolveDeletedUnlessNo(argLists, fileSystems, answers) ==
  \E args \in argLists, deleted \in fileSystems, answer \in answers :
    /\ Starts(args)
    /\ IF At(args, 1) = Null
       THEN /\ out' = {Msg("Usage", "")}
            /\ exit' = 1
            /\ UNCHANGED <<pc, locals>>
       ELSE LET cs == orderByPath(comments, outdatedPending(comments), 1)
                deletedFiles ==
                  groupByPath(comments, deletedOnly(comments, cs, deleted), <<>>)
                found == {Msg("deleted file", deletedFiles[g].path) :
                            g \in 1..Len(deletedFiles)}
                asked == {Msg("Proceed with batch resolution? (yes/no): ", answer)}
            IN IF cs = <<>>
               THEN /\ out' = {Msg("No outdated pending comments found", "")}
                    /\ exit' = 0
                    /\ UNCHANGED <<pc, locals>>
               ELSE IF deletedFiles = <<>>
               THEN /\ out' = {Msg("No outdated comments for deleted files", "")}
                    /\ exit' = 0
                    /\ UNCHANGED <<pc, locals>>
               ELSE IF toLowerCase(answer) = "no" \/ toLowerCase(answer) = "n"
               THEN /\ out' = found \cup asked \cup {Msg("Cancelled", "")}
                    /\ exit' = 0
                    /\ UNCHANGED <<pc, locals>>
               ELSE /\ out' = found \cup asked
                    /\ cmd' = [name |-> "resolve-deleted",
                               ids |-> idsOfGroups(deletedFiles),
                               commit |-> At(args, 1), reply |-> Null]
                    /\ pc' = <<"resolveComment">>
                    /\ exit' = 0
                    /\ UNCHANGED <<cur, fetched, threadInfo, pages, cursor, received>>
    /\ UNCHANGED <<store, clock>>

\* main, case "resolve-deleted": resolveDeletedFiles up to its loop; answer
\* is what the user types at the prompt
mainResolveDeleted(argLists, fileSystems, answers) ==
  \E args \in argLists, deleted \in fileSystems, answer \in answers :
    /\ Starts(args)
    /\ IF At(args, 1) = Null
       THEN /\ out' = {Msg("Usage", "")}
            /\ exit' = 1
            /\ UNCHANGED <<pc, locals>>
       ELSE LET cs == orderByPath(comments, outdatedPending(comments), 1)
                deletedFiles ==
                  groupByPath(comments, deletedOnly(comments, cs, deleted), <<>>)
                found == {Msg("deleted file", deletedFiles[g].path) :
                            g \in 1..Len(deletedFiles)}
                asked == {Msg("Proceed with batch resolution? (yes/no): ", answer)}
            IN IF cs = <<>>
               THEN /\ out' = {Msg("No outdated pending comments found", "")}
                    /\ exit' = 0
                    /\ UNCHANGED <<pc, locals>>
               ELSE IF deletedFiles = <<>>
               THEN /\ out' = {Msg("No outdated comments for deleted files", "")}
                    /\ exit' = 0
                    /\ UNCHANGED <<pc, locals>>
               ELSE IF toLowerCase(answer) # "yes" /\ toLowerCase(answer) # "y"
               THEN /\ out' = found \cup asked \cup {Msg("Cancelled", "")}
                    /\ exit' = 0
                    /\ UNCHANGED <<pc, locals>>
               ELSE /\ out' = found \cup asked
                    /\ cmd' = [name |-> "resolve-deleted",
                               ids |-> idsOfGroups(deletedFiles),
                               commit |-> At(args, 1), reply |-> Null]
                    /\ pc' = <<"resolveComment">>
                    /\ exit' = 0
                    /\ UNCHANGED <<cur, fetched, threadInfo, pages, cursor, received>>
    /\ UNCHANGED <<store, clock>>

\* git log --oneline -5 -- path, as verifyOutdated reads it: the command
\* fails, or its output split into lines, each line here its commit hash;
\* no output splits into one empty line
GitLogs ==
  { [thrown |-> TRUE, lines |-> <<>>], [thrown |-> FALSE, lines |-> <<"">>],
    [thrown |-> FALSE, lines |-> <<"c1">>],
    [thrown |-> FALSE, lines |-> <<"c2", "c1">>] }

\* Faulty variant: the suggested commit is recorded as the resolving commit.
mainVerifyOutdatedApplying(words, fileSystems, gitLogs) ==
  \E id \in words, deleted \in fileSystems, log \in gitLogs,
     fileModTime \in 0..MaxClock :
    /\ Starts(<<"verify-outdated", id>>)
    /\ LET n == ParseInt(id)
           comment == comments[n]
           notOutdated == IF comment.outdated THEN {}
                          ELSE {Msg("is not marked as outdated", id)}
           modified ==
             IF fileModTime = 0 THEN {}
             ELSE IF fileModTime > comment.first_seen
             THEN {Msg("Modified after comment", "Yes")}
             ELSE {Msg("Modified after comment", "No")}
           gitHistory ==
             IF log.thrown THEN {Msg("Unable to fetch git history", "")}
             ELSE {Msg("commit", log.lines[k]) : k \in 1..Len(log.lines)}
                    \cup {Msg("Suggested commit", log.lines[1])}
       IN IF n \notin DOMAIN comments
          THEN /\ out' = {Msg("not found", id)}
               /\ exit' = 1
               /\ comments' = comments
          ELSE IF comment.github_resolved
          THEN /\ out' = notOutdated \cup {Msg("is already resolved", id)}
               /\ exit' = 0
               /\ comments' = comments
          ELSE IF comment.path \in deleted
          THEN /\ out' = notOutdated \cup
                         {Msg("show", id), Msg("File exists", "No"),
                          Msg("File was deleted", comment.path)}
               /\ exit' = 0
               /\ comments' = comments
          ELSE /\ out' = notOutdated \cup
                         {Msg("show", id), Msg("File exists", "Yes")} \cup
                         modified \cup gitHistory
               /\ exit' = 0
               /\ comments' = IF log.thrown THEN comments
                            ELSE updateCommentField(comments, n, "resolved_commit",
                                                    log.lines[1])
    /\ UNCHANGED <<replies, clock, pc, locals>>

\* main, case "verify-outdated": verifyOutdated; deleted is the set of paths
\* with no file on disk, fileModTime the time the file was last modified,
\* 0 when getFileModifiedTime returns null
mainVerifyOutdated(words, fileSystems, gitLogs) ==
  \E id \in words, deleted \in fileSystems, log \in gitLogs,
     fileModTime \in 0..MaxClock :
    /\ Starts(<<"verify-outdated", id>>)
    /\ LET n == ParseInt(id)
           comment == comments[n]
           notOutdated == IF comment.outdated THEN {}
                          ELSE {Msg("is not marked as outdated", id)}
           modified ==
             IF fileModTime = 0 THEN {}
             ELSE IF fileModTime > comment.first_seen
             THEN {Msg("Modified after comment", "Yes")}
             ELSE {Msg("Modified after comment", "No")}
           gitHistory ==
             IF log.thrown THEN {Msg("Unable to fetch git history", "")}
             ELSE {Msg("commit", log.lines[k]) : k \in 1..Len(log.lines)}
                    \cup {Msg("Suggested commit", log.lines[1])}
       IN IF n \notin DOMAIN comments
          THEN /\ out' = {Msg("not found", id)}
               /\ exit' = 1
               /\ comments' = comments
          ELSE IF comment.github_resolved
          THEN /\ out' = notOutdated \cup {Msg("is already resolved", id)}
               /\ exit' = 0
               /\ comments' = comments
          ELSE IF comment.path \in deleted
          THEN /\ out' = notOutdated \cup
                         {Msg("show", id), Msg("File exists", "No"),
                          Msg("File was deleted", comment.path)}
               /\ exit' = 0
               /\ comments' = comments
          ELSE /\ out' = notOutdated \cup
                         {Msg("show", id), Msg("File exists", "Yes")} \cup
                         modified \cup gitHistory
               /\ exit' = 0
               /\ comments' = comments
    /\ UNCHANGED <<replies, clock, pc, locals>>

----------------------------------------------------------------------------
(* The tool with one review comment on the PR: its thread, if the provider *)
(* lists it, is on the only page of review threads                         *)

PRComments == {100}

\* the ids a user may type: 200 is no comment of the PR
Words == {"100", "200"}

ResolveArgLists ==
  { <<"resolve", "100">>, <<"resolve", "200">>, <<"resolve", "100", "200">>,
    <<"resolve", "100", "--reply", "text">> }

ShowArgLists ==
  { <<"show", "100">>, <<"show", "200">>, <<"show", "100", "200">> }

OutdatedArgLists ==
  { <<"outdated">>, <<"outdated", "--by-file">>, <<"outdated", "--count">>,
    <<"outdated", "--deleted-files">> }

ResolveFileArgLists == { <<"resolve-file", "a.ts", "c1">> }

ResolveDeletedArgLists == { <<"resolve-deleted", "c1">> }

\* what the user types at the prompt of resolve-deleted
Answers == {"yes", "Y", "no", ""}

\* the two answers that matter to resolve-deleted
Confirmations == {"yes", "no"}

\* resolve of the stored comment, at HEAD or with a commit
CommitResolveArgLists == { <<"resolve", "100">>, <<"resolve", "100", "c1">> }

\* resolve of the stored comment, bare or with a reply
ReplyResolveArgLists ==
  { <<"resolve", "100">>, <<"resolve", "100", "--reply", "text">> }

\* the files of the comments that exist in the work tree
FileSystems == SUBSET {"a.ts"}

\* what the provider may answer to the two queries of a sync about the
\* comments of the PR: every version of the comment, or the first one only,
\* and its thread with every pair of flags, or neither resolved nor outdated
Lists == RestLists(PRComments, Versions)

FirstLists == RestLists(PRComments, {v \in Versions : v.updated_at = 1})

Pages == ThreadPages(PRComments, BOOLEAN \X BOOLEAN, {FALSE})

PlainPages == ThreadPages(PRComments, {<<FALSE, FALSE>>}, {FALSE})

Next ==
  \/ Tick
  \/ processExited
  \/ mainFetch
  \/ fetchPRComments(Lists)
  \/ fetchThreadMetadata(Pages)
  \/ storeFetched
  \/ autoUnsnooze
  \/ printFetchSummary
  \/ mainSnooze(Words)
  \/ mainUnsnooze(Words)
  \/ mainUnsnoozeAll
  \/ mainNote(Words)
  \/ mainShow(ShowArgLists)
  \/ mainResolve(ResolveArgLists)
  \/ resolveComment
  \/ resolveThreadOnGitHub
  \/ resolved
  \/ mainUnresolve(Words)
  \/ unresolveComment
  \/ unresolveThreadOnGitHub
  \/ unresolved
  \/ mainReply(Words)
  \/ replyToComment(Lists)
  \/ postCommentReply
  \/ snoozeAfterReply
  \/ mainOutdated(OutdatedArgLists, FileSystems)
  \/ mainResolveFile(ResolveFileArgLists)
  \/ mainResolveDeleted(ResolveDeletedArgLists, FileSystems, Confirmations)

Spec == Init /\ [][Next]_vars

----------------------------------------------------------------------------
(* Properties of the store and of the commands, one comment on the PR *)

\* C1: when the sync stores a comment whose id is already in the store, the
\* row keeps its notes, resolved_commit, waiting_reply and
\* snoozed_reply_count, and its body, updated_at, outdated, thread_id and
\* github_resolved are those of the new fetch.
C1_UpsertKeepsLocalState ==
  [][(pc # <<>> /\ Head(pc) = "upsert") =>
       \A c \in fetched.comments :
         c.id \in DOMAIN comments =>
           LET old == comments[c.id]
               new == comments'[c.id]
               info == IF c.id \in DOMAIN threadInfo THEN threadInfo[c.id]
                       ELSE NoThread
           IN /\ new.notes = old.notes
              /\ new.resolved_commit = old.resolved_commit
              /\ new.waiting_reply = old.waiting_reply
              /\ new.snoozed_reply_count = old.snoozed_reply_count
              /\ new.body = c.body
              /\ new.updated_at = c.updated_at
              /\ new.outdated = info.isOutdated
              /\ new.thread_id = info.threadId
              /\ new.github_resolved = info.isResolved]_vars

\* a comment with a note, a resolved_commit and a snooze has just been stored
\* again, with the edited body and a resolved thread
C1_Witness ==
  /\ pc # <<>> /\ Head(pc) = "processAutoUnsnooze"
  /\ summary.updatedCount = 1
  /\ 100 \in DOMAIN comments
  /\ comments[100].notes # <<>>
  /\ comments[100].resolved_commit = HEAD
  /\ comments[100].waiting_reply
  /\ comments[100].snoozed_reply_count = 1
  /\ comments[100].body = B2
  /\ comments[100].updated_at = 2
  /\ comments[100].thread_id = "T1"
  /\ comments[100].github_resolved

\* C2: first_seen of a row is the time of the sync that stored it first, and
\* no step of any command changes it afterwards.
C2_FirstSeenFixed ==
  [][/\ \A id \in DOMAIN comments :
          /\ id \in DOMAIN comments'
          /\ comments'[id].first_seen = comments[id].first_seen
     /\ \A id \in (DOMAIN comments') \ (DOMAIN comments) :
          /\ pc # <<>> /\ Head(pc) = "upsert"
          /\ comments'[id].first_seen = clock]_vars

\* a comment first seen at time 1 has just been stored again at time 2
C2_Witness ==
  /\ pc # <<>> /\ Head(pc) = "processAutoUnsnooze"
  /\ summary.updatedCount = 1
  /\ clock = 2
  /\ 100 \in DOMAIN comments
  /\ comments[100].first_seen = 1

\* C5: snoozing a comment of the store sets waiting_reply and sets
\* snoozed_reply_count to the number of replies stored for it at that moment.
C5_SnoozeTakesSnapshot ==
  [][\A w \in Words :
       (/\ ParseInt(w) \in DOMAIN comments
        /\ \/ argv = <<>> /\ argv' = <<"snooze", w>>
           \/ pc # <<>> /\ Head(pc) = "snoozeAfterReply" /\ cur.id = w) =>
         /\ comments'[ParseInt(w)].waiting_reply
         /\ comments'[ParseInt(w)].snoozed_reply_count =
              Cardinality({r \in DOMAIN replies :
                             replies[r].in_reply_to_id = ParseInt(w)})]_vars

\* snooze 100 has run on a comment with one stored reply
C5_Witness ==
  /\ pc = <<>>
  /\ argv = <<"snooze", "100">>
  /\ exit = 0
  /\ comments[100].waiting_reply
  /\ comments[100].snoozed_reply_count = 1
  /\ \E r \in DOMAIN replies : replies[r].in_reply_to_id = 100

\* C7: when the provider answers a resolve or unresolve mutation with a
\* NOT_FOUND error, the outcome is Stale, the command ends with status 1 and
\* the thread_id of the comment is null in the store.
C7_NotFoundIsStale ==
  outcome.answer.notFound =>
    /\ outcome.result = "Stale"
    /\ pc = <<>>
    /\ exit = 1
    /\ comments[ParseInt(outcome.id)].thread_id = Null

\* gh exited non-zero with a NOT_FOUND error on its stdout
C7_Witness ==
  /\ outcome.answer.notFound
  /\ outcome.answer.thrown
  /\ outcome.op = "unresolve"
  /\ outcome.result = "Stale"
  /\ comments[100].thread_id = Null

\* C8: when a resolve or unresolve mutation fails for another reason than
\* NOT_FOUND, the command ends with status 1 and the step neither clears the
\* thread_id of the comment nor changes its resolved_commit.
C8_FailedKeepsThreadId ==
  [][(/\ pc # <<>>
      /\ Head(pc) \in {"resolveThreadOnGitHub", "unresolveThreadOnGitHub"}
      /\ outcome'.result = "Failed") =>
       /\ pc' = <<>>
       /\ exit' = 1
       /\ ~outcome'.answer.notFound
       /\ comments'[ParseInt(cur.id)].thread_id =
            comments[ParseInt(cur.id)].thread_id
       /\ comments'[ParseInt(cur.id)].resolved_commit =
            comments[ParseInt(cur.id)].resolved_commit]_vars

\* a resolve has failed: the thread id is still there, no commit recorded
C8_Witness ==
  /\ pc = <<>>
  /\ exit = 1
  /\ outcome.result = "Failed"
  /\ outcome.op = "resolve"
  /\ comments[100].thread_id = "T1"
  /\ comments[100].resolved_commit = Null

\* C9: resolve or unresolve of a stored comment whose thread_id is null ends
\* with status 1 at once: no provider call is issued (no mutation, no reply)
\* and the store is left as it was.
C9_NoThreadIdFails ==
  [][(/\ pc # <<>>
      /\ Head(pc) \in {"resolveComment", "unresolveComment"}
      /\ ParseInt(Head(cmd.ids)) \in DOMAIN comments
      /\ comments[ParseInt(Head(cmd.ids))].thread_id = Null) =>
       /\ pc' = <<>>
       /\ exit' = 1
       /\ calls' = calls
       /\ comments' = comments
       /\ replies' = replies]_vars

\* resolve --reply has ended on a comment without thread id, nothing called
C9_Witness ==
  /\ pc = <<>>
  /\ argv = <<"resolve", "100", "--reply", "text">>
  /\ exit = 1
  /\ Msg("No thread ID", "100") \in out
  /\ calls = {}
  /\ comments[100].thread_id = Null

\* C10: a command that names a comment id which is not in the store reports
\* it and ends with a non-zero status, also when the id is one of several.
C10_UnknownIdAborts ==
  (pc = <<>> /\ argv # <<>>) =>
    \A k \in 2..Len(argv) :
      (argv[k] \in Words /\ ~existsInDb(comments, argv[k])) =>
        exit = 1 /\ out # {}

\* C11: a fetched comment whose id is not in the thread map is stored with
\* thread_id null, github_resolved false and outdated false, whatever the
\* row held before.
C11_NoThreadInfoDefaults ==
  [][(pc # <<>> /\ Head(pc) = "upsert") =>
       \A c \in fetched.comments :
         c.id \notin DOMAIN threadInfo =>
           /\ comments'[c.id].thread_id = Null
           /\ ~comments'[c.id].github_resolved
           /\ ~comments'[c.id].outdated]_vars

\* the re-sync of a resolve has stored the comment just resolved, whose
\* thread id was there when the command began, without thread info
C11_Witness ==
  /\ pc = <<"processAutoUnsnooze", "resolved">>
  /\ cmd.reply = Null
  /\ cur.thread_id = "T1"
  /\ threadInfo = <<>>
  /\ summary.updatedCount = 1
  /\ comments[100].thread_id = Null
  /\ ~comments[100].github_resolved
  /\ ~comments[100].outdated

\* C13: no step of any command (fetch, note, snooze, unsnooze, resolve,
\* unresolve, reply, resolve-file, resolve-deleted) removes a row of the
\* comments table, also when the provider does not list the comment.
C13_RowsNeverRemoved ==
  [][\A id \in DOMAIN comments : id \in DOMAIN comments']_vars

\* a sync whose provider listed no comment has stored its result, and the
\* comment stored before is still there
C13_Witness ==
  /\ pc # <<>> /\ Head(pc) = "processAutoUnsnooze"
  /\ summary.newCount = 0
  /\ summary.updatedCount = 0
  /\ 100 \in DOMAIN comments

\* C14: no step of a resolve, its re-sync included, wakes the comment being
\* resolved or changes its snoozed_reply_count, as long as the comment has no
\* more replies than when it was snoozed.
C14_ResolveKeepsSnooze ==
  [][(/\ pc # <<>>
      /\ cmd.name \in {"resolve", "resolve-file", "resolve-deleted"}
      /\ ParseInt(cur.id) \in DOMAIN comments
      /\ comments[ParseInt(cur.id)].waiting_reply
      /\ Cardinality({r \in DOMAIN replies' :
                        replies'[r].in_reply_to_id = ParseInt(cur.id)})
           <= comments[ParseInt(cur.id)].snoozed_reply_count) =>
       /\ comments'[ParseInt(cur.id)].waiting_reply
       /\ comments'[ParseInt(cur.id)].snoozed_reply_count =
            comments[ParseInt(cur.id)].snoozed_reply_count]_vars

\* the re-sync of a successful resolve has returned: the comment is resolved
\* on the provider and still snoozed, with the snapshot of its one reply
C14_Witness ==
  /\ pc = <<"resolved">>
  /\ cmd.reply = Null
  /\ outcome.result = "Resolved"
  /\ comments[100].github_resolved
  /\ comments[100].resolved_commit = HEAD
  /\ comments[100].waiting_reply
  /\ comments[100].snoozed_reply_count = 1

\* C15: a second run of the sync cycle on the data the provider returned to
\* the first run, at the same time or later, leaves every comment row and
\* every reply row as the first run left it and reports 0 new and 0
\* auto-unsnoozed comments.
C15_SyncIdempotent ==
  (pc # <<>> /\ Head(pc) = "upsert") =>
    LET first == fetchCycle(comments, replies, fetched, threadInfo, clock)
    IN \A now \in clock..MaxClock :
         LET second == fetchCycle(first.comments, first.replies, fetched,
                                  threadInfo, now)
         IN /\ second.comments = first.comments
            /\ second.replies = first.replies
            /\ second.newCount = 0
            /\ second.unsnoozedCount = 0

\* a first run that has work to do: the comment is snoozed and has a note,
\* its body was edited, its thread is now resolved and a reply is new
C15_Witness ==
  /\ pc = <<"upsert">>
  /\ clock < MaxClock
  /\ 100 \in DOMAIN comments
  /\ comments[100].waiting_reply
  /\ comments[100].notes # <<>>
  /\ comments[100].body = B1
  /\ ~comments[100].github_resolved
  /\ replies = <<>>
  /\ \E c \in fetched.comments : c.id = 100 /\ c.body = B2
  /\ fetched.replies # {}
  /\ 100 \in DOMAIN threadInfo
  /\ threadInfo[100].isResolved

\* C20: when the reply command has ended with success, the reply was posted
\* and the comment is snoozed with snoozed_reply_count equal to the number of
\* its replies stored by the re-sync, so that an auto-unsnooze pass on this
\* store leaves it snoozed: only a reply stored later can wake it.
C20_ReplyLeavesSnoozed ==
  (pc = <<>> /\ argv # <<>> /\ argv[1] = "reply" /\ exit = 0) =>
    LET n == ParseInt(argv[2])
    IN /\ "POST reply" \in calls
       /\ n \in DOMAIN comments
       /\ comments[n].waiting_reply
       /\ comments[n].snoozed_reply_count = getReplyCount(replies, n)
       /\ processAutoUnsnooze(comments, replies).db[n] = comments[n]

\* the re-sync after the post stored a reply and the snapshot counts it
C20_Witness ==
  /\ pc = <<>>
  /\ argv = <<"reply", "100", "text">>
  /\ exit = 0
  /\ Msg("Snoozed", "100") \in out
  /\ comments[100].waiting_reply
  /\ comments[100].snoozed_reply_count = 1
  /\ getReplyCount(replies, 100) = 1

----------------------------------------------------------------------------
(* Syncing and snoozing with two review comments on the PR, both in open   *)
(* threads                                                                 *)

PairComments == {100, 200}

PairLists == RestLists(PairComments, {v \in Versions : v.updated_at = 1})

PairPlainPages == ThreadPages(PairComments, {<<FALSE, FALSE>>}, {FALSE})

NextPair ==
  \/ processExited
  \/ mainFetch
  \/ fetchPRComments(PairLists)
  \/ fetchThreadMetadata(PairPlainPages)
  \/ storeFetched
  \/ autoUnsnooze
  \/ printFetchSummary
  \/ mainSnooze(Words)
  \/ mainUnsnooze(Words)
  \/ mainUnsnoozeAll

SpecPair == Init /\ [][NextPair]_vars

\* C3: the auto-unsnooze pass leaves a snoozed comment as it is when it has
\* as many replies as its snoozed_reply_count, and when it has more sets
\* waiting_reply to false and snoozed_reply_count to 0; the number it returns
\* counts each comment it woke once.
C3_AutoUnsnoozeRule ==
  [][(pc # <<>> /\ Head(pc) = "processAutoUnsnooze") =>
       LET count(id) == Cardinality({r \in DOMAIN replies :
                                       replies[r].in_reply_to_id = id})
           snoozed == {id \in DOMAIN comments : comments[id].waiting_reply}
       IN /\ \A id \in snoozed :
               /\ count(id) = comments[id].snoozed_reply_count =>
                    comments'[id] = comments[id]
               /\ count(id) > comments[id].snoozed_reply_count =>
                    /\ ~comments'[id].waiting_reply
                    /\ comments'[id].snoozed_reply_count = 0
          /\ summary'.unsnoozedCount =
               Cardinality({id \in snoozed :
                              count(id) > comments[id].snoozed_reply_count})]_vars

\* the pass has woken 100, which got a reply, and left 200 snoozed, which has
\* the one reply it had when it was snoozed
C3_Witness ==
  /\ pc # <<>> /\ Head(pc) = "printFetchSummary"
  /\ summary.unsnoozedCount = 1
  /\ DOMAIN comments = {100, 200}
  /\ ~comments[100].waiting_reply
  /\ \E r \in DOMAIN replies : replies[r].in_reply_to_id = 100
  /\ comments[200].waiting_reply
  /\ comments[200].snoozed_reply_count = 1
  /\ \E r \in DOMAIN replies : replies[r].in_reply_to_id = 200

\* C4: right after an auto-unsnooze pass, whatever it did, a second pass on
\* the same store changes no row and returns 0.
C4_SecondPassIdle ==
  (pc # <<>> /\ Head(pc) = "printFetchSummary") =>
    processAutoUnsnooze(comments, replies) =
      [db |-> comments, unsnoozedCount |-> 0]

\* the first pass has woken 200 and has left 100 snoozed
C4_Witness ==
  /\ pc # <<>> /\ Head(pc) = "printFetchSummary"
  /\ summary.unsnoozedCount = 1
  /\ DOMAIN comments = {100, 200}
  /\ ~comments[200].waiting_reply
  /\ \E r \in DOMAIN replies : replies[r].in_reply_to_id = 200
  /\ comments[100].waiting_reply

\* C6: in a sync cycle the replies of the fetch are in the store when the
\* auto-unsnooze pass starts, so a snoozed comment for which the cycle
\* imports a new reply is due at the pass; the pass wakes every due comment,
\* and the count the cycle reports is the number of comments that went from
\* snoozed to not snoozed.
C6_RepliesBeforeAutoUnsnooze ==
  [][LET count(rs, id) == Cardinality({r \in DOMAIN rs :
                                         rs[r].in_reply_to_id = id})
         snoozed == {id \in DOMAIN comments : comments[id].waiting_reply}
     IN /\ (pc # <<>> /\ Head(pc) = "upsert") =>
             /\ Head(pc') = "processAutoUnsnooze"
             /\ \A r \in fetched.replies :
                  /\ r.id \in DOMAIN replies'
                  /\ replies'[r.id].in_reply_to_id = r.in_reply_to_id
             /\ \A id \in snoozed :
                  (\E r \in fetched.replies :
                     r.in_reply_to_id = id /\ r.id \notin DOMAIN replies) =>
                    /\ comments'[id].waiting_reply
                    /\ count(replies', id) > comments'[id].snoozed_reply_count
        /\ (pc # <<>> /\ Head(pc) = "processAutoUnsnooze") =>
             /\ Head(pc') = "printFetchSummary"
             /\ replies' = replies
             /\ \A id \in snoozed :
                  count(replies, id) > comments[id].snoozed_reply_count =>
                    ~comments'[id].waiting_reply
             /\ summary'.unsnoozedCount =
                  Cardinality({id \in snoozed : ~comments'[id].waiting_reply})
        /\ (pc # <<>> /\ Head(pc) = "printFetchSummary") =>
             /\ comments' = comments
             /\ summary'.unsnoozedCount = summary.unsnoozedCount]_vars

\* one cycle has imported a reply for each of two snoozed comments and has
\* woken both
C6_Witness ==
  /\ pc # <<>> /\ Head(pc) = "printFetchSummary"
  /\ summary.replies = 2
  /\ summary.unsnoozedCount = 2
  /\ \A id \in PairComments : id \in DOMAIN comments /\ ~comments[id].waiting_reply

----------------------------------------------------------------------------
(* Syncing one review comment whose body the reviewer may have written in  *)
(* many ways                                                               *)

\* lines as a review bot or a person writes them: no marker, a priority and
\* a severity marker, a severity marker alone, two priority markers
MarkedLines ==
  { {}, {"Potential issue", "Critical"}, {"Refactor suggestion", "Major"},
    {"Nitpick", "Minor"}, {"Trivial"}, {"Potential issue", "Nitpick"} }

\* body.split("\n"): one line at least
Bodies == UNION {[1..n -> MarkedLines] : n \in 1..MaxLines}

BodyVersions == {[body |-> b, updated_at |-> 1] : b \in Bodies}

BodyLists == RestLists(PRComments, BodyVersions)

NextParse ==
  \/ processExited
  \/ mainFetch
  \/ fetchPRComments(BodyLists)
  \/ fetchThreadMetadata(PlainPages)
  \/ storeFetched
  \/ autoUnsnooze
  \/ printFetchSummary

SpecParse == Init /\ [][NextParse]_vars

\* C12: the priority and the severity of a stored comment are those of the
\* first entry of the marker table found in the first line of its body, and
\* unknown when the first line holds no marker of the table, whatever the
\* later lines hold.
C12_FirstLineOnly ==
  \A id \in DOMAIN comments :
    LET firstLine == comments[id].body[1]
        expected(table) ==
          LET hits == {i \in 1..Len(table) : table[i][1] \in firstLine}
          IN IF hits = {} THEN "unknown"
             ELSE table[CHOOSE i \in hits : \A j \in hits : i <= j][2]
    IN /\ comments[id].priority = expected(PRIORITY_MARKERS)
       /\ comments[id].severity = expected(SEVERITY_MARKERS)

\* a stored comment with markers on its second line only
C12_Witness ==
  /\ 100 \in DOMAIN comments
  /\ comments[100].body = << {}, {"Potential issue", "Critical"} >>
  /\ comments[100].priority = "unknown"
  /\ comments[100].severity = "unknown"

----------------------------------------------------------------------------
(* Syncing when the thread metadata comes in more than one page             *)

\* fetch only, two comments, the thread query answered page by page
\* the threads of the two comments, over one page or two
PairPages == ThreadPages(PairComments, BOOLEAN \X BOOLEAN, BOOLEAN)

NextPages ==
  \/ processExited
  \/ mainFetch
  \/ fetchPRComments(PairLists)
  \/ fetchThreadMetadata(PairPages)
  \/ storeFetched
  \/ autoUnsnooze
  \/ printFetchSummary

SpecPages == Init /\ [][NextPages]_vars

\* C16: fetching the comments and fetching a page of thread metadata change
\* no comment row and no reply row, and when either fails the process ends
\* there with exit code 1: no call is repeated and nothing of the cycle is
\* stored.
C16_FailedFetchAborts ==
  [][(pc # <<>> /\ Head(pc) \in {"fetchPRComments", "fetchThreadMetadata"}) =>
       /\ comments' = comments
       /\ replies' = replies
       /\ Msg("Failed to fetch comments", "") \in out' =>
            /\ pc' = <<>>
            /\ exit' = 1
            /\ summary' = NoSummary]_vars

\* the second page of thread metadata failed, on a store that holds rows
C16_Witness ==
  /\ pc = <<>>
  /\ exit = 1
  /\ argv = <<"fetch">>
  /\ Msg("Page", "1") \in out
  /\ Msg("Failed to fetch comments", "") \in out
  /\ DOMAIN comments = PairComments
  /\ replies # <<>>

----------------------------------------------------------------------------
(* The bulk resolves with three review comments on the PR, one on a.ts and  *)
(* two on b.ts, none of them with replies                                   *)

BulkComments == {100, 200, 300}

\* the provider lists the three comments, unedited
BulkLists ==
  { list \in RestLists(BulkComments, {v \in Versions : v.updated_at = 1}) :
      /\ \A c \in list : c.in_reply_to_id = 0
      /\ {c.id : c \in list} = BulkComments }

\* the threads of 100 and 200 are on the page, that of 300 may be missing;
\* a thread is outdated and pending, outdated and resolved, or current and
\* pending
BulkPages ==
  { page \in ThreadPages(BulkComments,
                         {<<FALSE, TRUE>>, <<TRUE, TRUE>>, <<FALSE, FALSE>>},
                         {FALSE}) :
      {100, 200} \subseteq UNION {{c.databaseId : c \in t.comments} : t \in page.nodes} }

BulkResolveArgLists == { <<"resolve", "200", "300", "c1">> }

BulkResolveFileArgLists == { <<"resolve-file", "b.ts", "c1">> }

BulkFileSystems == SUBSET {"a.ts", "b.ts"}

NextBulk ==
  \/ processExited
  \/ mainFetch
  \/ fetchPRComments(BulkLists)
  \/ fetchThreadMetadata(BulkPages)
  \/ storeFetched
  \/ autoUnsnooze
  \/ printFetchSummary
  \/ mainResolve(BulkResolveArgLists)
  \/ mainResolveFile(BulkResolveFileArgLists)
  \/ mainResolveDeleted(ResolveDeletedArgLists, BulkFileSystems, Answers)
  \/ mainOutdated(OutdatedArgLists, BulkFileSystems)
  \/ resolveComment
  \/ resolveThreadOnGitHub
  \/ resolved

SpecBulk == Init /\ [][NextBulk]_vars

\* what resolveComment and its re-sync print when the resolve of id does not
\* succeed
ResolveFailures(id) ==
  {Msg("not found", id), Msg("No thread ID", id), Msg("Thread ID was stale", id),
   Msg("Failed to resolve thread", id), Msg("Failed to fetch comments", "")}

\* C17: in resolve with several ids, resolve-file and resolve-deleted, when
\* the resolve of an id does not succeed while later ids are left, the
\* process ends there with exit code 1: no later id is attempted, no row of
\* another comment changes, and every id resolved before still has the
\* commit recorded for it.
C17_BulkStopsAtFirstFailure ==
  [][(/\ pc # <<>>
      /\ cmd.name \in {"resolve", "resolve-file", "resolve-deleted"}
      /\ Len(cmd.ids) > 1
      /\ ResolveFailures(Head(cmd.ids)) \cap out' # {}) =>
       /\ pc' = <<>>
       /\ exit' = 1
       /\ \A n \in DOMAIN comments :
            n # ParseInt(Head(cmd.ids)) => comments'[n] = comments[n]
       /\ replies' = replies
       /\ \A m \in out :
            m.msg = "resolved" =>
              comments'[ParseInt(m.arg)].resolved_commit = cmd.commit]_vars

\* resolve-file resolved 200 and the mutation for 300 was refused
C17_Witness ==
  /\ pc = <<>>
  /\ exit = 1
  /\ argv = <<"resolve-file", "b.ts", "c1">>
  /\ Msg("resolved", "200") \in out
  /\ outcome.id = "300"
  /\ outcome.result = "Failed"
  /\ comments[200].resolved_commit = "c1"
  /\ comments[200].github_resolved
  /\ comments[300].resolved_commit = Null
  /\ ~comments[300].github_resolved

\* C18: when resolve-deleted asks for confirmation and the answer, in lower
\* case, is neither yes nor y, the command prints Cancelled and ends with
\* exit code 0: it calls the provider for nothing and changes no row.
C18_DeclinedChangesNothing ==
  [][(\E m \in out' :
        /\ m.msg = "Proceed with batch resolution? (yes/no): "
        /\ toLowerCase(m.arg) \notin {"yes", "y"}
        /\ m \notin out) =>
       /\ pc' = <<>>
       /\ exit' = 0
       /\ Msg("Cancelled", "") \in out'
       /\ calls' = {}
       /\ comments' = comments
       /\ replies' = replies]_vars

\* two deleted files with outdated pending comments, the prompt answered
\* by an empty line
C18_Witness ==
  /\ pc = <<>>
  /\ exit = 0
  /\ argv = <<"resolve-deleted", "c1">>
  /\ Msg("Proceed with batch resolution? (yes/no): ", "") \in out
  /\ Msg("Cancelled", "") \in out
  /\ Msg("deleted file", "a.ts") \in out
  /\ Msg("deleted file", "b.ts") \in out
  /\ calls = {}
  /\ outdatedPending(comments) = BulkComments

\* the groups hold every comment of S once and nothing else, each in a group
\* of its own path
Partitions(groups, S, db) ==
  /\ \A id \in S :
       Cardinality({p \in UNION {{<<g, k>> : k \in 1..Len(groups[g].ids)} :
                                   g \in 1..Len(groups)} :
                      groups[p[1]].ids[p[2]] = id}) = 1
  /\ \A g \in 1..Len(groups) :
       \A k \in 1..Len(groups[g].ids) :
         /\ groups[g].ids[k] \in S
         /\ db[groups[g].ids[k]].path = groups[g].path

\* C19: the groups of outdated --by-file partition the outdated pending
\* comments by path, and the groups of resolve-deleted partition by path the
\* outdated pending comments whose file is deleted: every such comment is in
\* exactly one group and has the path of its group.
C19_GroupingIsPartition ==
  LET cs == orderByPath(comments, outdatedPending(comments), 1)
  IN /\ Partitions(groupByPath(comments, cs, <<>>), outdatedPending(comments),
                   comments)
     /\ \A deleted \in SUBSET {"a.ts", "b.ts"} :
          Partitions(groupByPath(comments, deletedOnly(comments, cs, deleted), <<>>),
                     {id \in outdatedPending(comments) :
                        comments[id].path \in deleted},
                     comments)

\* outdated --by-file listed one comment under a.ts and two under b.ts
C19_Witness ==
  /\ pc = <<>>
  /\ exit = 0
  /\ argv = <<"outdated", "--by-file">>
  /\ out = {Msg("a.ts", "100"), Msg("b.ts", "200"), Msg("b.ts", "300")}
  /\ outdatedPending(comments) = BulkComments

\* C21: every query of fetchThreadMetadata carries the end cursor of the page
\* answered before it (none for the first); a query that is answered adds
\* one page, the loop goes on exactly while that page reports a next page
\* (a query that fails ends the process, pc = <<>>), and at the return
\* the map holds the thread id and the resolved flag of every comment of
\* every thread of every page answered.
C21_PagingFollowsCursor ==
  [][(pc # <<>> /\ Head(pc) = "fetchThreadMetadata") =>
       /\ cursor = IF received = <<>> THEN Null
                   ELSE received[Len(received)].endCursor
       /\ reviewThreadsQuery(cursor) \in calls'
       /\ pc' # <<>> =>
            LET page == received'[Len(received')]
            IN /\ Len(received') = Len(received) + 1
               /\ page.hasNextPage => pc' = pc /\ cursor' = page.endCursor
               /\ ~page.hasNextPage =>
                    /\ pc' = <<"upsert">> \o Tail(pc)
                    /\ \A k \in 1..Len(received') :
                         \A t \in received'[k].nodes :
                           \A c \in t.comments :
                             /\ c.databaseId \in DOMAIN threadInfo'
                             /\ threadInfo'[c.databaseId].threadId = t.id
                             /\ threadInfo'[c.databaseId].isResolved
                                  = t.isResolved]_vars

\* the function returned after two pages, the second asked for with the
\* cursor of the first, one thread on each
C21_Witness ==
  /\ pc = <<"upsert">>
  /\ Len(received) = 2
  /\ received[1].endCursor = "K1"
  /\ calls = {"GET comments", "query reviewThreads",
              "query reviewThreads after K1"}
  /\ commentsOf(received[1]) = {100}
  /\ commentsOf(received[2]) = {200}
  /\ threadInfo[100].threadId = "T1"
  /\ threadInfo[200].threadId = "T2"

----------------------------------------------------------------------------
(* Syncing when the review thread of a comment lists its replies too        *)

\* a thread as reviewThreads lists it: comments(first: 100) are the review
\* comment and the replies made in the thread
ConversationNode(id, res, outd, rs) ==
  [comments |-> {[outdated |-> outd, databaseId |-> c] : c \in {id} \cup rs},
   id |-> ThreadIdOf(id), isResolved |-> res]

\* the only page of review threads, each thread with some of its replies
ConversationPages(ids, flags) ==
  UNION {
    { [nodes |-> {ConversationNode(c, f[c][1], f[c][2], rs[c]) : c \in S},
       hasNextPage |-> FALSE, endCursor |-> Null] :
        f \in [S -> flags],
        rs \in {x \in [S -> SUBSET UNION {ReplyIdsOf(c) : c \in S}] :
                  \A c \in S : x[c] \subseteq ReplyIdsOf(c)} }
    : S \in SUBSET ids }

Conversations == ConversationPages(PRComments, BOOLEAN \X BOOLEAN)

NextThreads ==
  \/ Tick
  \/ processExited
  \/ mainFetch
  \/ fetchPRComments(FirstLists)
  \/ fetchThreadMetadata(Conversations)
  \/ storeFetched
  \/ autoUnsnooze
  \/ printFetchSummary

SpecThreads == Init /\ [][NextThreads]_vars

\* the review threads of the pages answered that are resolved
resolvedThreads(pageSeq) ==
  {t \in UNION {pageSeq[k].nodes : k \in 1..Len(pageSeq)} : t.isResolved}

\* C22: the threads-resolved count that the summary of a sync reports is the
\* number of review threads the provider reported as resolved in that sync.
C22_ResolvedCountIsThreads ==
  [][(pc # <<>> /\ Head(pc) = "printFetchSummary") =>
       summary'.resolvedCount = Cardinality(resolvedThreads(received))]_vars

----------------------------------------------------------------------------
(* The notes of a comment over notes, syncs, snoozes and resolves           *)

NextNotes ==
  \/ Tick
  \/ processExited
  \/ mainNoteWithin(Words, MaxNotesLog)
  \/ mainFetch
  \/ fetchPRComments(Lists)
  \/ fetchThreadMetadata(PlainPages)
  \/ storeFetched
  \/ autoUnsnooze
  \/ printFetchSummary
  \/ mainSnooze(Words)
  \/ mainUnsnooze(Words)
  \/ mainUnsnoozeAll
  \/ mainResolve(CommitResolveArgLists)
  \/ resolveComment
  \/ resolveThreadOnGitHub
  \/ resolved

SpecNotes == Init /\ [][NextNotes]_vars

\* s is the beginning of t
IsPrefix(s, t) == Len(s) <= Len(t) /\ \A k \in 1..Len(s) : s[k] = t[k]

\* C23: no step of any command removes or changes an entry of the notes of a
\* comment: the notes before the step are the beginning of the notes after
\* it (so every earlier value is a prefix of every later one), and the note
\* command adds to them one entry, the text with the time of the command.
C23_NotesAppendOnly ==
  [][\A id \in DOMAIN comments :
       /\ id \in DOMAIN comments'
       /\ IsPrefix(comments[id].notes, comments'[id].notes)
       /\ comments'[id].notes # comments[id].notes =>
            /\ argv' = <<"note", ToString(id), "text">>
            /\ comments'[id].notes =
                 Append(comments[id].notes, [timestamp |-> clock, text |-> "text"])]_vars

\* a second note was added after the first, and a sync that updated the row
\* has left both
C23_Witness ==
  /\ pc = <<>>
  /\ argv = <<"fetch">>
  /\ summary.updatedCount = 1
  /\ comments[100].body = B2
  /\ comments[100].notes = <<[timestamp |-> 1, text |-> "text"],
                             [timestamp |-> 2, text |-> "text"]>>

----------------------------------------------------------------------------
(* verify-outdated among syncs and resolves, one comment on the PR          *)

NextVerify ==
  \/ Tick
  \/ processExited
  \/ mainVerifyOutdated(Words, FileSystems, GitLogs)
  \/ mainFetch
  \/ fetchPRComments(FirstLists)
  \/ fetchThreadMetadata(Pages)
  \/ storeFetched
  \/ autoUnsnooze
  \/ printFetchSummary
  \/ mainResolve(CommitResolveArgLists)
  \/ resolveComment
  \/ resolveThreadOnGitHub
  \/ resolved

SpecVerify == Init /\ [][NextVerify]_vars

\* C25: verify-outdated changes no row of the store and calls the provider
\* for nothing, whatever it prints: the commit it suggests is not recorded
\* and the comment stays as it was.
C25_VerifyIsReadOnly ==
  [][(argv = <<>> /\ argv' # <<>> /\ Head(argv') = "verify-outdated") =>
       /\ comments' = comments
       /\ replies' = replies
       /\ calls' = {}
       /\ pc' = <<>>]_vars

\* verify-outdated suggested commit c2 for an outdated pending comment
C25_Witness ==
  /\ pc = <<>>
  /\ exit = 0
  /\ argv = <<"verify-outdated", "100">>
  /\ Msg("Suggested commit", "c2") \in out
  /\ comments[100].outdated
  /\ ~comments[100].github_resolved
  /\ comments[100].resolved_commit = Null

(***************************************************************************)
(* Resolve and unresolve, each with its re-sync, and fetch                 *)
(***************************************************************************)

NextResolve ==
  \/ Tick
  \/ processExited
  \/ mainFetch
  \/ fetchPRComments(Lists)
  \/ fetchThreadMetadata(Pages)
  \/ storeFetched
  \/ autoUnsnooze
  \/ printFetchSummary
  \/ mainResolve(CommitResolveArgLists)
  \/ resolveComment
  \/ resolveThreadOnGitHub
  \/ resolved
  \/ mainUnresolve(Words)
  \/ unresolveComment
  \/ unresolveThreadOnGitHub
  \/ unresolved

SpecResolve == Init /\ [][NextResolve]_vars

\* isResolved of the thread that the pages answered hold comment id in
reportedResolved(pageSeq, id) ==
  \E k \in 1..Len(pageSeq) :
    \E t \in pageSeq[k].nodes :
      t.isResolved /\ \E c \in t.comments : c.databaseId = id

\* C27: github_resolved is written only by the upsert of a sync, from the
\* thread state the provider answered in that sync: a row that the sync
\* upserts gets isResolved of its thread as the pages of this sync reported it
\* (false when no page reported it), and no other step, the resolve and
\* unresolve mutations among them, changes github_resolved of any row.
C27_ResolvedOnlyFromSync ==
  [][\A id \in DOMAIN comments' :
       IF /\ pc # <<>> /\ Head(pc) = "upsert"
          /\ id \in {c.id : c \in fetched.comments}
       THEN comments'[id].github_resolved = reportedResolved(received, id)
       ELSE /\ id \in DOMAIN comments
            /\ comments'[id].github_resolved = comments[id].github_resolved]_vars

\* an unresolve succeeded on the provider and its re-sync still reported the
\* thread resolved: the row says resolved
C27_Witness ==
  /\ pc = <<>> /\ argv = <<"unresolve", "100">> /\ exit = 0
  /\ outcome.result = "Unresolved"
  /\ 100 \in DOMAIN comments
  /\ comments[100].thread_id = "T1"
  /\ comments[100].github_resolved
  /\ comments[100].resolved_commit = Null


(***************************************************************************)
(* The commands that write waiting_reply and snoozed_reply_count, and the  *)
(* commands that sync                                                      *)
(***************************************************************************)

NextWaiting ==
  \/ processExited
  \/ mainFetch
  \/ fetchPRComments(Lists)
  \/ fetchThreadMetadata(Pages)
  \/ storeFetched
  \/ autoUnsnooze
  \/ printFetchSummary
  \/ mainSnooze(Words)
  \/ mainUnsnooze(Words)
  \/ mainUnsnoozeAll
  \/ mainReply(Words)
  \/ replyToComment(Lists)
  \/ postCommentReply
  \/ snoozeAfterReply
  \/ mainResolve(ReplyResolveArgLists)
  \/ resolveComment
  \/ resolveThreadOnGitHub
  \/ resolved
  \/ mainUnresolve(Words)
  \/ unresolveComment
  \/ unresolveThreadOnGitHub
  \/ unresolved

SpecWaiting == Init /\ [][NextWaiting]_vars

\* C29: in every reachable state of the store, inside a command or between
\* two commands, a comment whose waiting_reply is false has
\* snoozed_reply_count 0.
C29_NotWaitingHasNoSnapshot ==
  \A id \in DOMAIN comments :
    ~comments[id].waiting_reply => comments[id].snoozed_reply_count = 0

\* a comment that has a stored reply was unsnoozed by hand
C29_Witness ==
  /\ pc = <<>> /\ argv = <<"unsnooze", "100">> /\ exit = 0
  /\ 100 \in DOMAIN comments
  /\ getReplyCount(replies, 100) = 1
  /\ ~comments[100].waiting_reply
  /\ comments[100].snoozed_reply_count = 0

\* C30: a snoozed comment that has more stored replies than its snapshot
\* exists only inside a sync, between the step that stores the replies and
\* the auto-unsnooze pass; at the end of every command, whatever its exit
\* code, every comment with waiting_reply true has at most
\* snoozed_reply_count stored replies.
C30_SnoozedWithinSnapshot ==
  (\E id \in DOMAIN comments :
     /\ comments[id].waiting_reply
     /\ getReplyCount(replies, id) > comments[id].snoozed_reply_count)
  => pc # <<>> /\ Head(pc) = "processAutoUnsnooze"

\* a fetch ended and left a comment snoozed that has as many replies as
\* its snapshot
C30_Witness ==
  /\ pc = <<>> /\ argv = <<"fetch">> /\ exit = 0
  /\ 100 \in DOMAIN comments
  /\ comments[100].waiting_reply
  /\ comments[100].snoozed_reply_count = 1
  /\ getReplyCount(replies, 100) = 1

(***************************************************************************)
(* review.ts, the review workflow manager.  One run of the tool is one     *)
(* command; a command is one step, with what the user answers at the       *)
(* prompt of commit and what git does as its inputs.  A row's id is its    *)
(* index in its table and 0 stands for null, which the code tests with     *)
(* !id.  Of a session the model keeps status, mode, current_batch_id and   *)
(* last_activity, of a batch session_id, name, comment_ids,                *)
(* success_criteria, state, commit_message and commit_hash.                *)
(***************************************************************************)

\* most rows of review_sessions
MaxSessions == 2
\* most rows of review_batches
MaxBatches == 1
\* most success criteria of a batch
MaxCriteria == 1
\* most commits made in the repository
MaxCommits == 1

\* the mark a checked criterion starts with, and the mark of an unchecked one
CheckMark == "check mark"
CrossMark == "cross mark"

\* getActiveSession: the first row WHERE status = 'active', 0 when none
getActiveSession(ss) ==
  IF \E i \in 1..Len(ss) : ss[i].status = "active"
  THEN CHOOSE i \in 1..Len(ss) :
         /\ ss[i].status = "active"
         /\ \A j \in 1..(i - 1) : ss[j].status # "active"
  ELSE 0

createSession(ss, now) ==
  Append(ss, [status |-> "active", mode |-> "sequential",
              current_batch_id |-> 0, last_activity |-> now])

updateSessionActivity(ss, sessionId, now) ==
  [ss EXCEPT ![sessionId].last_activity = now]

pauseSession(ss, sessionId) == [ss EXCEPT ![sessionId].status = "paused"]

resumeSession(ss, sessionId, now) ==
  [ss EXCEPT ![sessionId].status = "active", ![sessionId].last_activity = now]

\* getCommentsByIds, on the comments table of discuss.sqlite
getCommentsByIds(db, ids) == {id \in DOMAIN db : \E i \in 1..Len(ids) : ids[i] = id}

\* createBatch: the new row, and the session put in batch mode on it
createBatch(bs, ss, sessionId, name) ==
  [batches |-> Append(bs, [session_id |-> sessionId, name |-> name,
                           comment_ids |-> <<>>, success_criteria |-> <<>>,
                           state |-> "planning", commit_message |-> Null,
                           commit_hash |-> Null]),
   sessions |-> [ss EXCEPT ![sessionId].mode = "batch",
                           ![sessionId].current_batch_id = Len(bs) + 1]]

getCurrentBatch(ss, sessionId) == ss[sessionId].current_batch_id

\* [...new Set([...currentIds, ...commentIds])]: the first occurrences, in order
RECURSIVE unique(_, _)
unique(ids, seen) ==
  IF ids = <<>> THEN <<>>
  ELSE IF Head(ids) \in seen THEN unique(Tail(ids), seen)
  ELSE <<Head(ids)>> \o unique(Tail(ids), seen \cup {Head(ids)})

addCommentsToBatch(bs, batchId, commentIds) ==
  [bs EXCEPT ![batchId].comment_ids = unique(@ \o commentIds, {})]

removeCommentsFromBatch(bs, batchId, commentIds) ==
  [bs EXCEPT ![batchId].comment_ids =
     SelectSeq(@, LAMBDA id : \A i \in 1..Len(commentIds) : commentIds[i] # id)]

\* c.replace(/^[marks]\s*/, ""): a criterion is its text, after its mark if
\* it has one
unmarked(c) ==
  IF c # <<>> /\ Head(c) \in {CheckMark, CrossMark} THEN Tail(c) ELSE c

addCriteria(bs, batchId, criterion) ==
  [bs EXCEPT ![batchId].success_criteria = Append(@, criterion)]

listCriteria(bs, batchId) == bs[batchId].success_criteria

checkCriteria(bs, batchId, index) ==
  IF index >= 0 /\ index < Len(listCriteria(bs, batchId))
  THEN [bs EXCEPT ![batchId].success_criteria[index + 1] =
          <<CheckMark>> \o unmarked(@)]
  ELSE bs

uncheckCriteria(bs, batchId, index) ==
  IF index >= 0 /\ index < Len(listCriteria(bs, batchId))
  THEN [bs EXCEPT ![batchId].success_criteria[index + 1] =
          <<CrossMark>> \o unmarked(@)]
  ELSE bs

\* c.startsWith(check mark)
startsWithCheck(c) == c # <<>> /\ Head(c) = CheckMark

\* Faulty variant: every() of an empty list, without the test for no criteria.
allCriteriaCompleteOfNone(bs, batchId) ==
  LET criteria == listCriteria(bs, batchId)
  IN \A i \in 1..Len(criteria) : startsWithCheck(criteria[i])

allCriteriaComplete(bs, batchId) ==
  LET criteria == listCriteria(bs, batchId)
  IN IF Len(criteria) = 0 THEN FALSE
     ELSE \A i \in 1..Len(criteria) : startsWithCheck(criteria[i])

getIncompleteCriteria(bs, batchId) ==
  LET criteria == listCriteria(bs, batchId)
  IN {i \in 1..Len(criteria) : ~startsWithCheck(criteria[i])}

getCommitMessage(bs, batchId) == bs[batchId].commit_message

setCommitMessage(bs, batchId, message) ==
  [bs EXCEPT ![batchId].commit_message = message]

\* a message that !message takes for none
unset(message) == message = Null \/ message = ""

----------------------------------------------------------------------------
(* git status --porcelain, as verifyFilesStaged reads it *)

\* the characters of a path
Text(path) ==
  CASE path = "a.ts" -> <<"a", ".", "t", "s">>
    [] path = "ba.ts" -> <<"b", "a", ".", "t", "s">>
    [] path = "b.ts" -> <<"b", ".", "t", "s">>
    [] OTHER -> <<"c", ".", "t", "s">>

\* The states of a file: unchanged, changed in the work tree and not staged
\* (" M"), changed and staged ("M ")
StatusCodes == {Clean, <<" ", "M">>, <<"M", " ">>}

\* stdout of git status --porcelain: one line XY, a space and the path for
\* every changed file, in the order of the paths
porcelain(g) ==
  LET changed == SelectSeq(GitPaths, LAMBDA p : g.status[p] # Clean)
  IN [i \in 1..Len(changed) |->
        <<g.status[changed[i]][1], g.status[changed[i]][2], " ">>
          \o Text(changed[i])]

RECURSIVE trimStart(_)
trimStart(t) ==
  IF t # <<>> /\ Head(t) = " " THEN trimStart(Tail(t)) ELSE t

RECURSIVE trimEnd(_)
trimEnd(t) ==
  IF t # <<>> /\ t[Len(t)] = " " THEN trimEnd(SubSeq(t, 1, Len(t) - 1)) ELSE t

\* stdout.toString().trim().split("\n"): trim works on the whole output, so
\* on the head of its first line and on the end of its last one; the empty
\* output splits into one empty line
statusLines(lines) ==
  IF lines = <<>> THEN << <<>> >>
  ELSE [i \in 1..Len(lines) |->
          LET l == IF i = 1 THEN trimStart(lines[i]) ELSE lines[i]
          IN IF i = Len(lines) THEN trimEnd(l) ELSE l]

\* line.substring(3)
substring(t, start) == SubSeq(t, start + 1, Len(t))

verifyFilesStaged(db, commentIds, g) ==
  LET commentFiles == {db[id].path : id \in getCommentsByIds(db, commentIds)}
      lines == statusLines(porcelain(g))
      stagedFiles ==
        { trimEnd(trimStart(substring(lines[i], 3))) :
            i \in {k \in 1..Len(lines) :
                     lines[k] # <<>> /\ Head(lines[k]) \in {"M", "A", "R", "C"}} }
      missingFiles == {file \in commentFiles : Text(file) \notin stagedFiles}
  IN [allStaged |-> missingFiles = {},
      missingFiles |-> missingFiles,
      stagedFiles |-> {file \in commentFiles : Text(file) \in stagedFiles}]

\* git commit -m: fails when nothing is staged; what was staged is committed
staged(g) == {p \in DOMAIN g.status : g.status[p][1] # " "}

gitCommit(g) ==
  [status |-> [p \in DOMAIN g.status |->
                 IF p \in staged(g) THEN Clean ELSE g.status[p]],
   commits |-> g.commits + 1]

\* git rev-parse HEAD
HashOf(n) == CASE n = 1 -> "h1" [] n = 2 -> "h2" [] OTHER -> "h3"

----------------------------------------------------------------------------
(* The commands of review.ts *)

\* a new process of review.ts running main
Runs(name) ==
  /\ shown = NoShown
  /\ UNCHANGED dvars

Shows(name, lines, answer) ==
  shown' = [cmd |-> name, out |-> lines, answer |-> answer]

\* the process is gone, and what it printed
reviewExited ==
  /\ shown # NoShown
  /\ shown' = NoShown
  /\ UNCHANGED <<sessions, batches, git, dvars>>

\* the user edits files and stages them, between two runs of the tool
workTree ==
  /\ shown = NoShown
  /\ \E st \in [DOMAIN git.status -> StatusCodes] :
       /\ st # git.status
       /\ git' = [git EXCEPT !.status = st]
  /\ UNCHANGED <<sessions, batches, shown, dvars>>

\* main, case "start"
startSession ==
  /\ Runs("start")
  /\ LET session == getActiveSession(sessions)
     IN IF session # 0
        THEN /\ sessions' = resumeSession(sessions, session, clock)
             /\ Shows("start", {Msg("Resuming existing session", ToString(session))}, "")
        ELSE /\ Len(sessions) < MaxSessions
             /\ sessions' = createSession(sessions, clock)
             /\ Shows("start", {Msg("Starting new review session",
                                    ToString(Len(sessions) + 1))}, "")
  /\ UNCHANGED <<batches, git>>

\* main, case "status"
showStatus ==
  /\ Runs("status")
  /\ LET session == getActiveSession(sessions)
     IN IF session = 0
        THEN Shows("status", {Msg("No active session", "")}, "")
        ELSE Shows("status", {Msg("Review Session", ToString(session))}, "")
  /\ UNCHANGED <<sessions, batches, git>>

\* main, case "pause"
mainPause ==
  /\ Runs("pause")
  /\ LET session == getActiveSession(sessions)
     IN IF session # 0
        THEN /\ sessions' = pauseSession(sessions, session)
             /\ Shows("pause", {Msg("Session paused", "")}, "")
        ELSE /\ sessions' = sessions
             /\ Shows("pause", {Msg("No active session", "")}, "")
  /\ UNCHANGED <<batches, git>>

\* main, case "batch", and startBatch
startBatch(names) ==
  /\ Runs("batch")
  /\ \E name \in names \cup {Null} :
       LET session == getActiveSession(sessions)
       IN IF name = Null
          THEN /\ Shows("batch", {Msg("Batch name required", "")}, "")
               /\ UNCHANGED <<sessions, batches>>
          ELSE IF session = 0
          THEN /\ Shows("batch", {Msg("No active session", "")}, "")
               /\ UNCHANGED <<sessions, batches>>
          ELSE /\ Len(batches) < MaxBatches
               /\ LET r == createBatch(batches, sessions, session, name)
                  IN batches' = r.batches /\ sessions' = r.sessions
               /\ Shows("batch", {Msg("Created batch", name)}, "")
  /\ UNCHANGED git

\* args.map(arg => parseInt(arg)).filter(id => !isNaN(id)); ParseInt is -1
\* where parseInt is NaN
parseIds(args) ==
  SelectSeq([i \in 1..Len(args) |-> ParseInt(args[i])], LAMBDA id : id # -1)

\* main, case "add", and addComments
addComments(argLists) ==
  /\ Runs("add")
  /\ \E args \in argLists :
       LET session == getActiveSession(sessions)
           batch == IF session = 0 THEN 0 ELSE getCurrentBatch(sessions, session)
           commentIds == parseIds(args)
       IN IF session = 0
          THEN /\ Shows("add", {Msg("No active session", "")}, "")
               /\ UNCHANGED <<sessions, batches>>
          ELSE IF batch = 0
          THEN /\ Shows("add", {Msg("No active batch", "")}, "")
               /\ UNCHANGED <<sessions, batches>>
          ELSE IF Len(commentIds) = 0
          THEN /\ Shows("add", {Msg("No valid comment IDs provided", "")}, "")
               /\ UNCHANGED <<sessions, batches>>
          ELSE /\ batches' = addCommentsToBatch(batches, batch, commentIds)
               /\ sessions' = updateSessionActivity(sessions, session, clock)
               /\ Shows("add", {Msg("Added", ToString(Len(commentIds)))}, "")
  /\ UNCHANGED git

\* main, case "remove"
mainRemove(argLists) ==
  /\ Runs("remove")
  /\ \E args \in argLists :
       LET session == getActiveSession(sessions)
           batch == IF session = 0 THEN 0 ELSE getCurrentBatch(sessions, session)
           commentIds == parseIds(args)
       IN IF session = 0
          THEN /\ Shows("remove", {Msg("No active session", "")}, "")
               /\ batches' = batches
          ELSE IF batch = 0
          THEN /\ Shows("remove", {Msg("No active batch", "")}, "")
               /\ batches' = batches
          ELSE /\ batches' = removeCommentsFromBatch(batches, batch, commentIds)
               /\ Shows("remove", {Msg("Removed", ToString(Len(commentIds)))}, "")
  /\ UNCHANGED <<sessions, git>>

\* main, case "criteria", and manageCriteria; index is parseInt(args[0]),
\* -1 where it is NaN
manageCriteria(texts, indexes) ==
  /\ Runs("criteria")
  /\ LET session == getActiveSession(sessions)
         batch == IF session = 0 THEN 0 ELSE getCurrentBatch(sessions, session)
     IN IF session = 0
        THEN /\ Shows("criteria", {Msg("No active session", "")}, "")
             /\ UNCHANGED <<sessions, batches>>
        ELSE IF batch = 0
        THEN /\ Shows("criteria", {Msg("No active batch", "")}, "")
             /\ UNCHANGED <<sessions, batches>>
        ELSE \/ \E criterion \in texts \cup {<<>>} :
                  IF criterion = <<>>
                  THEN /\ Shows("criteria", {Msg("No criterion text provided", "")}, "")
                       /\ UNCHANGED <<sessions, batches>>
                  ELSE /\ Len(listCriteria(batches, batch)) < MaxCriteria
                       /\ batches' = addCriteria(batches, batch, criterion)
                       /\ sessions' = updateSessionActivity(sessions, session, clock)
                       /\ Shows("criteria", {Msg("Added success criterion", "")}, "")
             \/ /\ Shows("criteria",
                         IF Len(listCriteria(batches, batch)) = 0
                         THEN {Msg("No success criteria yet", "")}
                         ELSE {Msg("Success Criteria", "")}, "")
                /\ batches' = batches
                /\ sessions' = IF Len(listCriteria(batches, batch)) = 0 THEN sessions
                               ELSE updateSessionActivity(sessions, session, clock)
             \/ \E index \in indexes, action \in {"check", "uncheck"} :
                  IF index < 1
                  THEN /\ Shows("criteria", {Msg("Invalid criterion index", "")}, "")
                       /\ UNCHANGED <<sessions, batches>>
                  ELSE /\ batches' = IF action = "check"
                                     THEN checkCriteria(batches, batch, index - 1)
                                     ELSE uncheckCriteria(batches, batch, index - 1)
                       /\ sessions' = updateSessionActivity(sessions, session, clock)
                       /\ Shows("criteria",
                                {Msg(IF action = "check"
                                     THEN "Marked criterion as complete"
                                     ELSE "Marked criterion as incomplete", "")}, "")
  /\ UNCHANGED git

\* main, case "commit-msg", and manageCommitMessage: set with the words of
\* the command line joined, edit with what the editor left, trimmed, and
\* no word to view
manageCommitMessage(messages) ==
  /\ Runs("commit-msg")
  /\ LET session == getActiveSession(sessions)
         batch == IF session = 0 THEN 0 ELSE getCurrentBatch(sessions, session)
     IN IF session = 0
        THEN /\ Shows("commit-msg", {Msg("No active session", "")}, "")
             /\ UNCHANGED <<sessions, batches>>
        ELSE IF batch = 0
        THEN /\ Shows("commit-msg", {Msg("No active batch", "")}, "")
             /\ UNCHANGED <<sessions, batches>>
        ELSE /\ \/ \E message \in messages, how \in {"set", "edit"} :
                     /\ batches' = setCommitMessage(batches, batch, message)
                     /\ Shows("commit-msg",
                              {Msg(IF how = "set" THEN "Commit message set"
                                   ELSE "Commit message updated", message)}, "")
                \/ /\ batches' = batches
                   /\ Shows("commit-msg",
                            IF unset(getCommitMessage(batches, batch))
                            THEN {Msg("No commit message set yet", "")}
                            ELSE {Msg("Current Commit Message",
                                      getCommitMessage(batches, batch))}, "")
             /\ sessions' = updateSessionActivity(sessions, session, clock)
  /\ UNCHANGED git

\* main, case "verify", and verifyFiles
verifyFiles ==
  /\ Runs("verify")
  /\ LET session == getActiveSession(sessions)
         batch == IF session = 0 THEN 0 ELSE getCurrentBatch(sessions, session)
     IN IF session = 0
        THEN /\ Shows("verify", {Msg("No active session", "")}, "")
             /\ sessions' = sessions
        ELSE IF batch = 0
        THEN /\ Shows("verify", {Msg("No active batch", "")}, "")
             /\ sessions' = sessions
        ELSE LET v == verifyFilesStaged(comments, batches[batch].comment_ids, git)
             IN /\ Shows("verify",
                         {Msg("Staged", f) : f \in v.stagedFiles}
                           \cup {Msg("NOT staged", f) : f \in v.missingFiles}
                           \cup {IF v.allStaged
                                 THEN Msg("All comment files are staged", "")
                                 ELSE Msg("Some files are not staged", "")}, "")
                /\ sessions' = updateSessionActivity(sessions, session, clock)
  /\ UNCHANGED <<batches, git>>

\* checkReadiness: its five checks and its verdict
readiness(db, bs, batchId, g) ==
  LET commentIds == bs[batchId].comment_ids
      hasComments == Len(commentIds) > 0
      hasCriteria == Len(listCriteria(bs, batchId)) > 0
      allComplete == allCriteriaComplete(bs, batchId)
      hasCommitMessage == ~unset(getCommitMessage(bs, batchId))
      allStaged == verifyFilesStaged(db, commentIds, g).allStaged
  IN [hasComments |-> hasComments, hasCriteria |-> hasCriteria,
      allComplete |-> allComplete, hasCommitMessage |-> hasCommitMessage,
      allStaged |-> allStaged,
      ready |-> hasComments /\ hasCriteria /\ allComplete /\ hasCommitMessage
                /\ allStaged]

\* main, case "ready", and checkReadiness
checkReadiness ==
  /\ Runs("ready")
  /\ LET session == getActiveSession(sessions)
         batch == IF session = 0 THEN 0 ELSE getCurrentBatch(sessions, session)
     IN IF session = 0
        THEN /\ Shows("ready", {Msg("No active session", "")}, "")
             /\ sessions' = sessions
        ELSE IF batch = 0
        THEN /\ Shows("ready", {Msg("No active batch", "")}, "")
             /\ sessions' = sessions
        ELSE LET r == readiness(comments, batches, batch, git)
             IN /\ Shows("ready",
                         {Msg("Readiness Check", ""),
                          IF r.hasComments THEN Msg("Comments", "in batch")
                          ELSE Msg("Comments", "No comments added yet"),
                          IF ~r.hasCriteria THEN Msg("Criteria", "No success criteria defined")
                          ELSE IF r.allComplete THEN Msg("Criteria", "All complete")
                          ELSE Msg("Criteria", "incomplete"),
                          IF r.hasCommitMessage THEN Msg("Commit message", "Set")
                          ELSE Msg("Commit message", "Not set"),
                          IF ~r.hasComments THEN Msg("Readiness Check", "")
                          ELSE IF r.allStaged THEN Msg("Files", "All comment files are staged")
                          ELSE Msg("Files", "Some comment files not staged"),
                          IF r.ready THEN Msg("READY TO COMMIT", "")
                          ELSE Msg("NOT READY", "")}, "")
                /\ sessions' = updateSessionActivity(sessions, session, clock)
  /\ UNCHANGED <<batches, git>>

\* commitBatch: the issues of its pre-flight check
preflight(db, bs, batchId, g) ==
  LET commentIds == bs[batchId].comment_ids
      hasComments == Len(commentIds) > 0
      allComplete == allCriteriaComplete(bs, batchId)
      commitMessage == getCommitMessage(bs, batchId)
      v == verifyFilesStaged(db, commentIds, g)
  IN (IF ~hasComments THEN {Msg("No comments in batch", "")} ELSE {})
       \cup (IF ~allComplete
             THEN {Msg("incomplete criteria",
                       ToString(Cardinality(getIncompleteCriteria(bs, batchId))))}
             ELSE {})
       \cup (IF unset(commitMessage) THEN {Msg("No commit message set", "")} ELSE {})
       \cup (IF ~v.allStaged
             THEN {Msg("files not staged", f) : f \in v.missingFiles}
             ELSE {})

\* main, case "commit", and commitBatch: the pre-flight check, the prompt,
\* git commit and git rev-parse HEAD, then the UPDATE of the batch; a git
\* command that fails is caught
commitBatch(answers) ==
  /\ Runs("commit")
  /\ git.commits < MaxCommits
  /\ LET session == getActiveSession(sessions)
         batch == IF session = 0 THEN 0 ELSE getCurrentBatch(sessions, session)
     IN IF session = 0
        THEN /\ Shows("commit", {Msg("No active session", "")}, "")
             /\ UNCHANGED <<sessions, batches, git>>
        ELSE IF batch = 0
        THEN /\ Shows("commit", {Msg("No active batch", "")}, "")
             /\ UNCHANGED <<sessions, batches, git>>
        ELSE LET issues == preflight(comments, batches, batch, git)
             IN IF issues # {}
                THEN /\ Shows("commit", {Msg("Cannot commit", "")} \cup issues, "")
                     /\ UNCHANGED <<sessions, batches, git>>
                ELSE \E answer \in answers :
                       IF toLowerCase(answer) # "yes" /\ toLowerCase(answer) # "y"
                       THEN /\ Shows("commit", {Msg("Cancelled", "")}, answer)
                            /\ UNCHANGED <<sessions, batches, git>>
                       ELSE \/ /\ staged(git) # {}
                               /\ git' = gitCommit(git)
                               /\ \/ /\ batches' =
                                          [batches EXCEPT
                                             ![batch].state = "done",
                                             ![batch].commit_hash = HashOf(git'.commits)]
                                        /\ sessions' =
                                             updateSessionActivity(sessions, session, clock)
                                        /\ Shows("commit",
                                                 {Msg("Committed", HashOf(git'.commits))},
                                                 answer)
                                  \/ \* git rev-parse HEAD fails
                                     /\ Shows("commit", {Msg("Commit failed", "rev-parse")},
                                              answer)
                                     /\ UNCHANGED <<sessions, batches>>
                            \/ \* git commit fails: nothing staged, a hook
                               /\ Shows("commit", {Msg("Commit failed", "commit")}, answer)
                               /\ UNCHANGED <<sessions, batches, git>>

\* the comments table that review.ts finds: empty, or as a fetch of
\* discuss.ts left it with comment 100 on a.ts
ReviewedStores ==
  {<<>>} \cup
  { upsertComment(<<>>, TopLevel(100, v), <<>>, 1).db : v \in Versions }

InitReview ==
  /\ comments \in ReviewedStores
  /\ replies = <<>>
  /\ clock = 1
  /\ pc = <<>>
  /\ cmd = NoCmd
  /\ cur = NoCur
  /\ fetched = NoFetched
  /\ threadInfo = <<>>
  /\ pages = 0
  /\ cursor = Null
  /\ received = <<>>
  /\ summary = NoSummary
  /\ argv = <<>>
  /\ exit = 0
  /\ out = {}
  /\ calls = {}
  /\ outcome = NoOutcome
  /\ InitReviewDb

ReviewWords == {<<"100">>, <<"200">>, <<"x">>}

\* what the user types after batch, criteria add, criteria check and
\* commit-msg set
BatchNames == {"b1"}

CriteriaTexts == { <<"tests pass">> }

CriteriaIndexes == {-1, 1, 2}

CommitMessages == {"", "fix"}

NextReview ==
  \/ reviewExited
  \/ workTree
  \/ startSession
  \/ showStatus
  \/ mainPause
  \/ startBatch(BatchNames)
  \/ addComments(ReviewWords)
  \/ mainRemove(ReviewWords)
  \/ manageCriteria(CriteriaTexts, CriteriaIndexes)
  \/ manageCommitMessage(CommitMessages)
  \/ verifyFiles
  \/ checkReadiness
  \/ commitBatch(Answers)

SpecReview == InitReview /\ [][NextReview]_vars

\* the batch a command of review.ts works on: the current batch of the
\* active session, 0 when there is none
workedBatch ==
  LET session == getActiveSession(sessions)
  IN IF session = 0 THEN 0 ELSE getCurrentBatch(sessions, session)

\* C24: the commit command creates a git commit, or changes the state or the
\* commit_hash of a batch, only when the current batch has a comment, has a
\* success criterion and every criterion checked, has a commit message, has
\* the file of every comment of it staged in the repository, and the user
\* answered yes; in every other case no commit is made and state and
\* commit_hash of every batch are as before.
C24_CommitOnlyWhenComplete ==
  [][(shown = NoShown /\ shown'.cmd = "commit") =>
       LET b == workedBatch
           complete ==
             /\ b # 0
             /\ Len(batches[b].comment_ids) > 0
             /\ Len(batches[b].success_criteria) > 0
             /\ \A i \in 1..Len(batches[b].success_criteria) :
                  Head(batches[b].success_criteria[i]) = CheckMark
             /\ batches[b].commit_message \notin {Null, ""}
             /\ \A id \in getCommentsByIds(comments, batches[b].comment_ids) :
                  comments[id].path \in staged(git)
             /\ toLowerCase(shown'.answer) \in {"yes", "y"}
       IN \/ complete
          \/ /\ git'.commits = git.commits
             /\ \A k \in 1..Len(batches) :
                  /\ batches'[k].state = batches[k].state
                  /\ batches'[k].commit_hash = batches[k].commit_hash]_vars

\* C26: start resumes the existing session, a paused one included, and
\* creates a session only when there is none; the session it resumes is
\* active afterwards and keeps its current batch.
C26_StartResumesSession ==
  [][(shown = NoShown /\ shown'.cmd = "start") =>
       IF sessions = <<>>
       THEN Len(sessions') = 1 /\ sessions'[1].status = "active"
       ELSE /\ Len(sessions') = Len(sessions)
            /\ \E i \in 1..Len(sessions) :
                 /\ sessions'[i].status = "active"
                 /\ sessions'[i].current_batch_id = sessions[i].current_batch_id]_vars

\* C28: on the same batch and the same repository ready and commit agree:
\* ready prints READY TO COMMIT exactly when the pre-flight check of commit
\* finds no issue, and commit gets past its pre-flight check exactly when
\* the verdict of ready is ready.
C28_ReadyAgreesWithCommit ==
  [][workedBatch # 0 =>
       /\ (shown = NoShown /\ shown'.cmd = "ready") =>
            (Msg("READY TO COMMIT", "") \in shown'.out
               <=> preflight(comments, batches, workedBatch, git) = {})
       /\ (shown = NoShown /\ shown'.cmd = "commit") =>
            (Msg("Cannot commit", "") \notin shown'.out
               <=> readiness(comments, batches, workedBatch, git).ready)]_vars

\* ready printed READY TO COMMIT for a batch with comment 100, whose file
\* is staged
C28_Witness ==
  /\ shown.cmd = "ready"
  /\ Msg("READY TO COMMIT", "") \in shown.out
  /\ workedBatch # 0
  /\ batches[workedBatch].comment_ids = <<100>>
  /\ 100 \in DOMAIN comments
  /\ "a.ts" \in staged(git)

====
